---- MODULE Spec2Model ----
(***************************************************************************)
(* bridge-mcp: MCP tool / resource handlers (tools/*.py, resources) on top  *)
(* of QtModelProvider (providers/qtmodel_provider.py), which forwards to    *)
(* the vendor objects mdb / odb.                                            *)
(*                                                                          *)
(* A handler invocation is one atomic step (the server runs the synchronous *)
(* handlers one at a time).  The state keeps the provider's availability,   *)
(* the part of the vendor model the handlers read or write, and the record  *)
(* of the invocation just handled: the provider calls made, the vendor      *)
(* calls made and the value handed back to the MCP layer.                   *)
(*                                                                          *)
(* Python values are tagged with their type ([t |-> "list", v |-> ...]),    *)
(* floats that are quotients are kept as exact fractions <<num, den>>.      *)
(* The vendor is the environment: which of its calls raise is an input of   *)
(* every step (env.F, the ordinals of the vendor calls that raise), as is   *)
(* the shape of its answers (env.ans) and the results it reports (env.res). *)
(***************************************************************************)
EXTENDS Integers, Sequences, FiniteSets, TLC

VARIABLES
    available,   \* QtModelProvider._available, fixed by __init__
    model,       \* content of the vendor model behind mdb / odb
    tool,        \* name of the handler just run, "none" while idle
    args,        \* its arguments
    pcalls,      \* calls the handler made on the provider, in order
    vcalls,      \* calls the provider made on mdb / odb, in order
    ret,         \* what the handler handed back (a string, or a raised exception)
    history      \* the invocations answered earlier in this session, oldest first

vars == <<available, model, tool, args, pcalls, vcalls, ret, history>>

-----------------------------------------------------------------------------
\* Bounds of the explored inputs.

\* largest num_elements / num_elements_per_span tried (smallest is -1)
MaxNumElements == 3
\* longest spans list tried
MaxSpans == 2
\* most vendor calls that raise within one invocation
MaxFails == 1
\* most vendor calls one invocation can make (ordinals that env.F may name)
MaxVendorCalls == 10
\* most earlier invocations of a session
MaxHistory == 2

-----------------------------------------------------------------------------
\* Small helpers.

Range(s) == {s[i] : i \in 1..Len(s)}

SeqMax(s) == IF s = <<>> THEN 0 ELSE CHOOSE x \in Range(s) : \A y \in Range(s) : y <= x

Ids(recs) == [i \in 1..Len(recs) |-> recs[i].id]

\* Python values
PyNone == [t |-> "none"]
PyList(s) == [t |-> "list", v |-> s]
PyStr(s) == [t |-> "str", v |-> s]
PyInt(n) == [t |-> "int", v |-> n]
PyObj(s) == [t |-> "object", v |-> s]

\* Python truthiness: None, empty list, empty string, 0 are falsy.
Truthy(p) ==
    CASE p.t = "none" -> FALSE
      [] p.t = "list" -> p.v # <<>>
      [] p.t = "str" -> p.v # ""
      [] p.t = "int" -> p.v # 0
      [] OTHER -> TRUE

\* `x or []`
OrEmptyList(p) == IF Truthy(p) THEN p ELSE PyList(<<>>)

\* str(x)
IntStr(n) ==
    CASE n = 0 -> "0" [] n = 1 -> "1" [] n = 2 -> "2" [] n = 3 -> "3"
      [] n = 7 -> "7" [] OTHER -> "int"

Str(p) ==
    CASE p.t = "none" -> "None"
      [] p.t = "str" -> p.v
      [] p.t = "int" -> IntStr(p.v)
      [] p.t = "list" -> IF p.v = <<>> THEN "[]" ELSE "[...]"
      [] OTHER -> "<object>"

\* a / b for b # 0, kept exact
Quot(a, b) == <<a, b>>

\* i * q for an integer i and a fraction q
Times(i, q) == <<i * q[1], q[2]>>

\* p + q
Plus(p, q) ==
    IF p[2] = q[2] THEN <<p[1] + q[1], p[2]>>
    ELSE <<p[1] * q[2] + q[1] * p[2], p[2] * q[2]>>

\* p < q
Less(p, q) ==
    IF p[2] * q[2] > 0 THEN p[1] * q[2] < q[1] * p[2] ELSE p[1] * q[2] > q[1] * p[2]

\* round(x, 6): the nearest multiple of 10^-6 (x >= 0 here), as a count of 10^-6
Round6(p) ==
    LET n == IF p[2] < 0 THEN -p[1] ELSE p[1]
        d == IF p[2] < 0 THEN -p[2] ELSE p[2]
    IN <<(2 * n * 1000000 + d) \div (2 * d), 1000000>>

-----------------------------------------------------------------------------
\* The vendor model (what mdb writes and odb reads).

EmptyModel ==
    [mats |-> <<>>, secs |-> <<>>, nodes |-> {}, elems |-> {}, sup |-> {},
     cases |-> <<>>, stages |-> <<>>, groups |-> <<>>, bgroups |-> <<>>,
     tendons |-> <<>>, links |-> <<>>,
     vib |-> [on |-> FALSE, modes |-> 0], cs |-> [on |-> FALSE, creep |-> FALSE]]

NextId(recs) == SeqMax(Ids(recs)) + 1

HasName(recs, name) == \E i \in 1..Len(recs) : recs[i].name = name

mdb_add_material(m, name) ==
    IF HasName(m.mats, name) THEN m
    ELSE [m EXCEPT !.mats = Append(@, [id |-> NextId(@), name |-> name])]

mdb_add_section(m, name) ==
    IF HasName(m.secs, name) THEN m
    ELSE [m EXCEPT !.secs = Append(@, [id |-> NextId(@), name |-> name])]

mdb_add_nodes(m, node_data) ==
    [m EXCEPT !.nodes = @ \cup {node_data[i][1] : i \in 1..Len(node_data)}]

mdb_add_elements(m, ele_data) ==
    [m EXCEPT !.elems = @ \cup {ele_data[i][1] : i \in 1..Len(ele_data)}]

mdb_add_general_support(m, node_id) == [m EXCEPT !.sup = @ \cup {node_id}]

AppendNew(s, x) == IF x \in Range(s) THEN s ELSE Append(s, x)

mdb_add_load_case(m, name) == [m EXCEPT !.cases = AppendNew(@, name)]

mdb_add_construction_stage(m, name) == [m EXCEPT !.stages = AppendNew(@, name)]

mdb_add_structure_group(m, name) ==
    IF HasName(m.groups, name) THEN m
    ELSE [m EXCEPT !.groups = Append(@, [name |-> name, elems |-> <<>>])]

mdb_add_structure_to_group(m, name, element_ids) ==
    [m EXCEPT !.groups =
        [i \in 1..Len(@) |->
            IF @[i].name = name THEN [@[i] EXCEPT !.elems = element_ids] ELSE @[i]]]

mdb_add_boundary_group(m, name) == [m EXCEPT !.bgroups = AppendNew(@, name)]

mdb_add_tendon_2d(m, name) ==
    IF HasName(m.tendons, name) THEN m
    ELSE [m EXCEPT !.tendons = Append(@, [name |-> name])]

mdb_add_elastic_link(m, start_id, end_id) ==
    [m EXCEPT !.links = Append(@, <<start_id, end_id>>)]

mdb_update_construction_stage_setting(m, do_analysis, do_creep) ==
    [m EXCEPT !.cs = [on |-> do_analysis, creep |-> do_creep]]

mdb_update_self_vibration_setting(m, do_analysis, mode_num) ==
    [m EXCEPT !.vib = [on |-> do_analysis, modes |-> mode_num]]

\* An odb list query.  The vendor's answer is the list, or (its choice, env.ans)
\* None in place of an empty list, or an object that is no list at all.
odb_list(env, s) ==
    CASE env.ans = "object" -> PyObj("vendor object")
      [] env.ans = "none" /\ s = <<>> -> PyNone
      [] OTHER -> PyList(s)

Names(recs) == [i \in 1..Len(recs) |-> recs[i].name]

SetToSeq(S) ==
    LET RECURSIVE F(_)
        F(T) == IF T = {} THEN <<>>
                ELSE LET x == CHOOSE y \in T : \A z \in T : y <= z
                     IN <<x>> \o F(T \ {x})
    IN F(S)

-----------------------------------------------------------------------------
\* Execution of one handler: the model so far, the calls so far, the pending
\* exception ("none" when there is none), the value of the last call, and the
\* handler's return value once it has returned.

NoOut == [kind |-> "none", tag |-> "none", head |-> "", detail |-> <<>>]

\* an adapter that refuses every request once a request has failed
StartAfterFailure ==
    [m |-> model, pc |-> <<>>, vc |-> <<>>,
     exc |-> IF \E i \in 1..Len(history) : history[i].ret.tag = "error"
             THEN "RuntimeError" ELSE "none",
     val |-> PyNone, out |-> NoOut]

Start == [m |-> model, pc |-> <<>>, vc |-> <<>>, exc |-> "none", val |-> PyNone, out |-> NoOut]

Raise(e, exc) == [e EXCEPT !.exc = exc, !.val = PyNone]

\* an except clause that lets the exception go on
SwallowNothing(e) == e

\* `except Exception: <log>` around one step
Swallow(e) == [e EXCEPT !.exc = "none", !.val = PyNone]

Return(e, tag, head, detail) ==
    [e EXCEPT !.out = [kind |-> "str", tag |-> tag, head |-> head, detail |-> detail]]

ExcText(exc) ==
    CASE exc = "RuntimeError" -> "qtmodel provider unavailable: <reason>"
      [] exc = "NotImplementedError" ->
            "Structural checking (CDB) is not yet supported in this qtmodel version."
      [] exc = "ZeroDivisionError" -> "division by zero"
      [] exc = "IndexError" -> "list index out of range"
      [] exc = "TypeError" -> "unsupported operand type"
      [] exc = "ValueError" -> "Unknown result_type"
      [] exc = "OSError" -> "cannot create directory"
      [] OTHER -> "vendor error"

\* One call on a vendor object: it raises when its ordinal is in env.F, and
\* otherwise has its effect m2 on the model and answers v.
Vendor(e, env, obj, method, a, m2, v) ==
    LET failed == (Len(e.vc) + 1) \in env.F
        call == [obj |-> obj, method |-> method, args |-> a, raised |-> failed,
                 ans |-> IF failed THEN PyNone ELSE v]
    IN [e EXCEPT !.vc = Append(@, call),
                 !.m = IF failed THEN e.m ELSE m2,
                 !.exc = IF failed THEN "VendorError" ELSE "none",
                 !.val = IF failed THEN PyNone ELSE v]

\* v evaluated once, then F of that value
Bind(v, F(_)) == CHOOSE r \in {F(x) : x \in {v}} : TRUE

\* `x = <step>; <rest>`: the step runs once; the rest runs on its outcome unless
\* the step raised
Do(step, rest(_)) == Bind(step, LAMBDA x : IF x.exc # "none" THEN x ELSE rest(x))

\* Bookkeeping of a provider call made by a handler: e2 is the execution after it;
\* the call's arguments, the exception it raised and the value it returned are kept.
Called(method, a, e2) ==
    Bind(e2, LAMBDA x : [x EXCEPT !.pc = Append(@, [method |-> method, args |-> a,
                                                    exc |-> x.exc, val |-> x.val])])

\* next step of straight-line code: skipped while an exception is pending
Then(e, next) == IF e.exc # "none" THEN e ELSE next

-----------------------------------------------------------------------------
\* What odb answers from the model.

odb_get_node_data(m, env) == odb_list(env, SetToSeq(m.nodes))

odb_get_element_data(m, env) == odb_list(env, SetToSeq(m.elems))

odb_get_material_data(m, env) == odb_list(env, m.mats)

odb_get_section_names(m, env) == odb_list(env, Ids(m.secs))

odb_get_stage_names(m, env) == odb_list(env, m.stages)

odb_get_load_case_names(m, env) == odb_list(env, m.cases)

odb_get_structure_group_names(m, env) == odb_list(env, Names(m.groups))

odb_get_boundary_group_names(m, env) == odb_list(env, m.bgroups)

odb_get_general_support_data(m, env) == odb_list(env, SetToSeq(m.sup))

odb_get_elastic_link_data(m, env) == odb_list(env, m.links)

odb_get_tendon_data(m, env) == odb_list(env, m.tendons)

odb_get_group_elements(m, env, name) ==
    IF HasName(m.groups, name)
    THEN odb_list(env, (CHOOSE g \in Range(m.groups) : g.name = name).elems)
    ELSE odb_list(env, <<>>)

-----------------------------------------------------------------------------
\* QtModelProvider.  Every operation takes the execution so far and yields the
\* execution after the call; e.val is the value the operation returns.

NoKw == [k \in {} |-> 0]

Kw(k, v) == k :> v

\* len(x) if isinstance(x, list) else 0
ListLen(p) == IF p.t = "list" THEN Len(p.v) ELSE 0

\* a gate that lets every call through
RequireNothing(e) == e

QtModelProvider_require_available(e) ==
    IF ~available THEN Raise(e, "RuntimeError") ELSE e

\* the eight odb reads of get_model_summary and the dict built from them
\* len(x) if isinstance(x, list) else 0
Count(p) == PyInt(ListLen(p))

SummaryReads(e, env) ==
    Do(Vendor(e, env, "odb", "get_node_data", NoKw, e.m, odb_get_node_data(e.m, env)),
       LAMBDA e1 :
    Do(Vendor(e1, env, "odb", "get_element_data", NoKw, e.m,
              odb_get_element_data(e.m, env)), LAMBDA e2 :
    Do(Vendor(e2, env, "odb", "get_material_data", NoKw, e.m,
              odb_get_material_data(e.m, env)), LAMBDA e3 :
    Do(Vendor(e3, env, "odb", "get_section_names", NoKw, e.m,
              odb_get_section_names(e.m, env)), LAMBDA e4 :
    Do(Vendor(e4, env, "odb", "get_stage_names", NoKw, e.m,
              odb_get_stage_names(e.m, env)), LAMBDA e5 :
    Do(Vendor(e5, env, "odb", "get_load_case_names", NoKw, e.m,
              odb_get_load_case_names(e.m, env)), LAMBDA e6 :
    Do(Vendor(e6, env, "odb", "get_structure_group_names", NoKw, e.m,
              odb_get_structure_group_names(e.m, env)), LAMBDA e7 :
    Do(Vendor(e7, env, "odb", "get_boundary_group_names", NoKw, e.m,
              odb_get_boundary_group_names(e.m, env)), LAMBDA e8 :
    [e8 EXCEPT !.val =
        [t |-> "dict",
         v |-> [node_count |-> Count(e1.val), element_count |-> Count(e2.val),
                material_count |-> Count(e3.val), section_count |-> Count(e4.val),
                stage_count |-> Count(e5.val), load_case_count |-> Count(e6.val),
                structure_group_count |-> Count(e7.val),
                boundary_group_count |-> Count(e8.val)]]]))))))))

QtModelProvider_get_model_summary(e, env) ==
    Called("get_model_summary", NoKw,
           Do(QtModelProvider_require_available(e), LAMBDA g : SummaryReads(g, env)))

\* [result] if isinstance(result, dict); result if isinstance(result, list) else []
ListOrEmpty(p) ==
    CASE p.t = "dict" -> PyList(<<p>>)
      [] p.t = "list" -> p
      [] OTHER -> PyList(<<>>)

QtModelProvider_get_node_data(e, env, ids) ==
    Called("get_node_data", Kw("ids", ids),
           Do(QtModelProvider_require_available(e), LAMBDA g :
           Do(Vendor(g, env, "odb", "get_node_data",
                     IF ids.t # "none" THEN Kw("ids", ids) ELSE NoKw,
                     g.m, odb_get_node_data(g.m, env)), LAMBDA v :
           [v EXCEPT !.val = ListOrEmpty(v.val)])))

QtModelProvider_get_element_data(e, env, ids) ==
    Called("get_element_data", Kw("ids", ids),
           Do(QtModelProvider_require_available(e), LAMBDA g :
           Do(Vendor(g, env, "odb", "get_element_data",
                     IF ids.t # "none" THEN Kw("ids", ids) ELSE NoKw,
                     g.m, odb_get_element_data(g.m, env)), LAMBDA v :
           [v EXCEPT !.val = ListOrEmpty(v.val)])))

\* an odb read whose answer is returned as `answer or []`
ReadOrEmpty(e, env, pmethod, vmethod, answer) ==
    Called(pmethod, NoKw,
           Do(QtModelProvider_require_available(e), LAMBDA g :
           Do(Vendor(g, env, "odb", vmethod, NoKw, g.m, answer), LAMBDA v :
           [v EXCEPT !.val = OrEmptyList(v.val)])))

QtModelProvider_get_material_data(e, env) ==
    ReadOrEmpty(e, env, "get_material_data", "get_material_data",
                odb_get_material_data(e.m, env))

QtModelProvider_get_section_data(e, env, sec_id, position) ==
    Called("get_section_data", [sec_id |-> sec_id, position |-> position],
           Do(QtModelProvider_require_available(e), LAMBDA g :
           Do(Vendor(g, env, "odb", "get_section_data",
                     [sec_id |-> sec_id, position |-> position], g.m, env.res), LAMBDA v :
           [v EXCEPT !.val = IF Truthy(v.val) THEN v.val ELSE [t |-> "dict", v |-> NoKw]])))

QtModelProvider_get_section_names(e, env) ==
    ReadOrEmpty(e, env, "get_section_names", "get_section_names",
                odb_get_section_names(e.m, env))

QtModelProvider_get_boundary_data(e, env) ==
    Called("get_boundary_data", NoKw,
           Do(QtModelProvider_require_available(e), LAMBDA g :
           Do(Vendor(g, env, "odb", "get_general_support_data", NoKw, g.m,
                     odb_get_general_support_data(g.m, env)), LAMBDA e1 :
           Do(Vendor(e1, env, "odb", "get_elastic_link_data", NoKw, g.m,
                     odb_get_elastic_link_data(g.m, env)), LAMBDA e2 :
           Do(Vendor(e2, env, "odb", "get_elastic_support_data", NoKw, g.m,
                     odb_list(env, <<>>)), LAMBDA e3 :
           Do(Vendor(e3, env, "odb", "get_master_slave_link_data", NoKw, g.m,
                     odb_list(env, <<>>)), LAMBDA e4 :
           Do(Vendor(e4, env, "odb", "get_beam_constraint_data", NoKw, g.m,
                     odb_list(env, <<>>)), LAMBDA e5 :
           [e5 EXCEPT !.val =
               [t |-> "dict",
                v |-> [general_supports |-> OrEmptyList(e1.val),
                       elastic_links |-> OrEmptyList(e2.val),
                       elastic_supports |-> OrEmptyList(e3.val),
                       master_slave_links |-> OrEmptyList(e4.val),
                       beam_constraints |-> OrEmptyList(e5.val)]]])))))))

QtModelProvider_get_load_case_names(e, env) ==
    ReadOrEmpty(e, env, "get_load_case_names", "get_load_case_names",
                odb_get_load_case_names(e.m, env))

QtModelProvider_get_stage_names(e, env) ==
    ReadOrEmpty(e, env, "get_stage_names", "get_stage_names", odb_get_stage_names(e.m, env))

QtModelProvider_get_structure_group_names(e, env) ==
    ReadOrEmpty(e, env, "get_structure_group_names", "get_structure_group_names",
                odb_get_structure_group_names(e.m, env))

\* a provider operation that is the gate followed by one vendor call
Forward(e, env, pmethod, pargs, obj, vmethod, vargs, m2, v) ==
    Called(pmethod, pargs,
           Do(QtModelProvider_require_available(e), LAMBDA g :
           Vendor(g, env, obj, vmethod, vargs, m2, v)))

QtModelProvider_add_nodes(e, env, node_data, kwargs) ==
    Forward(e, env, "add_nodes", kwargs @@ Kw("node_data", node_data),
            "mdb", "add_nodes", kwargs @@ Kw("node_data", node_data),
            mdb_add_nodes(e.m, node_data), PyNone)

QtModelProvider_add_elements(e, env, ele_data, kwargs) ==
    Forward(e, env, "add_elements", kwargs @@ Kw("ele_data", ele_data),
            "mdb", "add_elements", kwargs @@ Kw("ele_data", ele_data),
            mdb_add_elements(e.m, ele_data), PyNone)

QtModelProvider_add_material(e, env, name, mat_type, standard, database, kwargs) ==
    LET base == [name |-> name, mat_type |-> mat_type, standard |-> standard]
        params == kwargs @@ (IF database # "" THEN Kw("database", database) @@ base ELSE base)
    IN Forward(e, env, "add_material", kwargs @@ Kw("database", database) @@ base,
               "mdb", "add_material", params, mdb_add_material(e.m, name), PyNone)

QtModelProvider_add_section(e, env, name, sec_type, kwargs) ==
    Forward(e, env, "add_section", kwargs @@ [name |-> name, sec_type |-> sec_type],
            "mdb", "add_section", kwargs @@ [name |-> name, sec_type |-> sec_type],
            mdb_add_section(e.m, name), PyNone)

QtModelProvider_add_general_support(e, env, node_id, boundary_info, kwargs) ==
    Forward(e, env, "add_general_support",
            kwargs @@ [node_id |-> node_id, boundary_info |-> boundary_info],
            "mdb", "add_general_support",
            kwargs @@ [node_id |-> node_id, boundary_info |-> boundary_info],
            mdb_add_general_support(e.m, node_id), PyNone)

QtModelProvider_add_elastic_link(e, env, link_type, start_id, end_id, kwargs) ==
    Forward(e, env, "add_elastic_link",
            kwargs @@ [link_type |-> link_type, start_id |-> start_id, end_id |-> end_id],
            "mdb", "add_elastic_link",
            kwargs @@ [link_type |-> link_type, start_id |-> start_id, end_id |-> end_id],
            mdb_add_elastic_link(e.m, start_id, end_id), PyNone)

QtModelProvider_add_nodal_force(e, env, node_id, case_name, load_info, kwargs) ==
    Forward(e, env, "add_nodal_force",
            kwargs @@ [node_id |-> node_id, case_name |-> case_name, load_info |-> load_info],
            "mdb", "add_nodal_force",
            kwargs @@ [node_id |-> node_id, case_name |-> case_name, load_info |-> load_info],
            e.m, PyNone)

QtModelProvider_add_beam_element_load(e, env, element_id, case_name, load_type, kwargs) ==
    Forward(e, env, "add_beam_element_load",
            kwargs @@ [element_id |-> element_id, case_name |-> case_name,
                       load_type |-> load_type],
            "mdb", "add_beam_element_load",
            kwargs @@ [element_id |-> element_id, case_name |-> case_name,
                       load_type |-> load_type],
            e.m, PyNone)

QtModelProvider_add_tendon_property(e, env, name, tendon_type, kwargs) ==
    Forward(e, env, "add_tendon_property",
            kwargs @@ [name |-> name, tendon_type |-> tendon_type],
            "mdb", "add_tendon_property",
            kwargs @@ [name |-> name, tendon_type |-> tendon_type], e.m, PyNone)

QtModelProvider_add_tendon_2d(e, env, name, property_name, kwargs) ==
    Forward(e, env, "add_tendon_2d",
            kwargs @@ [name |-> name, property_name |-> property_name],
            "mdb", "add_tendon_2d",
            kwargs @@ [name |-> name, property_name |-> property_name],
            mdb_add_tendon_2d(e.m, name), PyNone)

QtModelProvider_add_pre_stress(e, env, case_name, tendon_name, force, kwargs) ==
    Forward(e, env, "add_pre_stress",
            kwargs @@ [case_name |-> case_name, tendon_name |-> tendon_name, force |-> force],
            "mdb", "add_pre_stress",
            kwargs @@ [case_name |-> case_name, tendon_name |-> tendon_name, force |-> force],
            e.m, PyNone)

QtModelProvider_add_construction_stage(e, env, name, duration, kwargs) ==
    Forward(e, env, "add_construction_stage",
            kwargs @@ [name |-> name, duration |-> duration],
            "mdb", "add_construction_stage",
            kwargs @@ [name |-> name, duration |-> duration],
            mdb_add_construction_stage(e.m, name), PyNone)

QtModelProvider_merge_all_stages(e, env, name) ==
    Forward(e, env, "merge_all_stages", Kw("name", name),
            "mdb", "merge_all_stages", Kw("name", name),
            mdb_add_construction_stage(e.m, name), PyNone)

QtModelProvider_update_project_setting(e, env, kwargs) ==
    Forward(e, env, "update_project_setting", kwargs,
            "mdb", "update_project_setting", kwargs, e.m, PyNone)

QtModelProvider_update_construction_stage_setting(e, env, kwargs) ==
    Forward(e, env, "update_construction_stage_setting", kwargs,
            "mdb", "update_construction_stage_setting", kwargs,
            mdb_update_construction_stage_setting(e.m, kwargs.do_analysis,
                                                  kwargs.do_creep_analysis),
            PyNone)

QtModelProvider_update_self_vibration_setting(e, env, kwargs) ==
    Forward(e, env, "update_self_vibration_setting", kwargs,
            "mdb", "update_self_vibration_setting", kwargs,
            mdb_update_self_vibration_setting(e.m, kwargs.do_analysis, kwargs.mode_num),
            PyNone)

\* the four result queries: ids, stage_id and the keyword arguments go to odb as given
ResultQuery(e, env, method, ids, stage_id, kwargs) ==
    Forward(e, env, method, kwargs @@ [ids |-> ids, stage_id |-> stage_id],
            "odb", method, kwargs @@ [ids |-> ids, stage_id |-> stage_id], e.m, env.res)

QtModelProvider_get_deformation(e, env, ids, stage_id, kwargs) ==
    ResultQuery(e, env, "get_deformation", ids, stage_id, kwargs)

QtModelProvider_get_element_force(e, env, ids, stage_id, kwargs) ==
    ResultQuery(e, env, "get_element_force", ids, stage_id, kwargs)

QtModelProvider_get_element_stress(e, env, ids, stage_id, kwargs) ==
    ResultQuery(e, env, "get_element_stress", ids, stage_id, kwargs)

QtModelProvider_get_reaction(e, env, ids, stage_id, kwargs) ==
    ResultQuery(e, env, "get_reaction", ids, stage_id, kwargs)

QtModelProvider_save_model_image(e, env, file_path) ==
    Forward(e, env, "save_model_image", Kw("file_path", file_path),
            "odb", "save_png", Kw("file_path", file_path), e.m, env.res)

\* plot_methods of plot_result: result_type -> the odb method bound to it
PlotTypes ==
    {"displacement", "reaction", "beam_force", "beam_stress", "truss_force",
     "truss_stress", "plate_force", "plate_stress", "modal"}

\* a table that lost its last entry
plot_methods_without_modal(result_type) ==
    CASE result_type = "displacement" -> "plot_displacement_result"
      [] result_type = "reaction" -> "plot_reaction_result"
      [] result_type = "beam_force" -> "plot_beam_element_force"
      [] result_type = "beam_stress" -> "plot_beam_element_stress"
      [] result_type = "truss_force" -> "plot_truss_element_force"
      [] result_type = "truss_stress" -> "plot_truss_element_stress"
      [] result_type = "plate_force" -> "plot_plate_element_force"
      [] result_type = "plate_stress" -> "plot_plate_element_stress"
      [] OTHER -> "None"

plot_methods(result_type) ==
    CASE result_type = "displacement" -> "plot_displacement_result"
      [] result_type = "reaction" -> "plot_reaction_result"
      [] result_type = "beam_force" -> "plot_beam_element_force"
      [] result_type = "beam_stress" -> "plot_beam_element_stress"
      [] result_type = "truss_force" -> "plot_truss_element_force"
      [] result_type = "truss_stress" -> "plot_truss_element_stress"
      [] result_type = "plate_force" -> "plot_plate_element_force"
      [] result_type = "plate_stress" -> "plot_plate_element_stress"
      [] result_type = "modal" -> "plot_modal_result"
      [] OTHER -> "None"

QtModelProvider_plot_result(e, env, result_type, file_path, kwargs) ==
    Called("plot_result",
           kwargs @@ [result_type |-> result_type, file_path |-> file_path],
           LET method == plot_methods(result_type)
           IN Do(QtModelProvider_require_available(e), LAMBDA g :
                 IF method = "None" THEN Raise(g, "ValueError")
                 ELSE Vendor(g, env, "odb", method,
                             kwargs @@ Kw("file_path", file_path), g.m, env.res)))

\* a verdict that does not look at the materials
ValidateErrorsNoMaterials(summary) ==
    (IF summary.node_count.v = 0 THEN <<"Model has no nodes">> ELSE <<>>)
    \o (IF summary.element_count.v = 0 THEN <<"Model has no elements">> ELSE <<>>)

\* validate_model of the provider: overlaps give warnings, empty counts give errors
ValidateErrors(summary) ==
    (IF summary.node_count.v = 0 THEN <<"Model has no nodes">> ELSE <<>>)
    \o (IF summary.element_count.v = 0 THEN <<"Model has no elements">> ELSE <<>>)
    \o (IF summary.material_count.v = 0 THEN <<"Model has no materials">> ELSE <<>>)

ValidateWarnings(env) ==
    (IF Truthy(env.ovn) THEN <<"overlapping nodes">> ELSE <<>>)
    \o (IF Truthy(env.ove) THEN <<"overlapping elements">> ELSE <<>>)

\* `if overlap: warnings.append(f"Found {len(overlap)} ... {overlap[:5]}...")`
OverlapWarning(e) ==
    IF Truthy(e.val) /\ e.val.t \notin {"list", "str"} THEN Raise(e, "TypeError") ELSE e

ValidateBody(g, env) ==
    Do(OverlapWarning(Vendor(g, env, "odb", "get_overlap_nodes", NoKw, g.m, env.ovn)),
       LAMBDA e1 :
    Do(OverlapWarning(Vendor(e1, env, "odb", "get_overlap_elements", NoKw, g.m, env.ove)),
       LAMBDA e2 :
    Do(QtModelProvider_require_available(e2), LAMBDA e3 :
    Do(SummaryReads(e3, env), LAMBDA e4 :
    [e4 EXCEPT !.val =
        [t |-> "dict",
         v |-> [is_valid |-> Len(ValidateErrors(e4.val.v)) = 0,
                errors |-> ValidateErrors(e4.val.v),
                warnings |-> ValidateWarnings(env),
                summary |-> e4.val.v]]]))))

QtModelProvider_validate_model(e, env) ==
    Called("validate_model", NoKw,
           Do(QtModelProvider_require_available(e), LAMBDA g : ValidateBody(g, env)))

\* the structural-checking operations: the gate, then NotImplementedError
NotSupported(e, pmethod, pargs) ==
    Called(pmethod, pargs,
           Do(QtModelProvider_require_available(e), LAMBDA g :
           Raise(g, "NotImplementedError")))

QtModelProvider_add_check_load_combine(e, env, name, standard, kind, kwargs) ==
    NotSupported(e, "add_check_load_combine",
                 kwargs @@ [name |-> name, standard |-> standard, kind |-> kind])

QtModelProvider_solve_concrete_check(e, env, name) ==
    NotSupported(e, "solve_concrete_check", Kw("name", name))

QtModelProvider_add_concrete_check_case(e, env, name, standard, structure_type, group_name) ==
    NotSupported(e, "add_concrete_check_case",
                 [name |-> name, standard |-> standard, structure_type |-> structure_type,
                  group_name |-> group_name])

QtModelProvider_add_parameter_reinforcement(e, env, sec_id, kwargs) ==
    NotSupported(e, "add_parameter_reinforcement", kwargs @@ Kw("sec_id", sec_id))

QtModelProvider_add_structure_group(e, env, name) ==
    Forward(e, env, "add_structure_group", Kw("name", name),
            "mdb", "add_structure_group", Kw("name", name),
            mdb_add_structure_group(e.m, name), PyNone)

QtModelProvider_add_elements_to_structure_group(e, env, name, element_ids) ==
    Forward(e, env, "add_elements_to_structure_group",
            [name |-> name, element_ids |-> element_ids],
            "mdb", "add_structure_to_group", [name |-> name, element_ids |-> element_ids],
            mdb_add_structure_to_group(e.m, name, element_ids), PyNone)

QtModelProvider_get_structure_group_elements(e, env, name) ==
    Called("get_structure_group_elements", Kw("name", name),
           Do(QtModelProvider_require_available(e), LAMBDA g :
           Do(Vendor(g, env, "odb", "get_group_elements", Kw("name", name), g.m,
                     odb_get_group_elements(g.m, env, name)), LAMBDA v :
           [v EXCEPT !.val = OrEmptyList(v.val)])))

QtModelProvider_add_boundary_group(e, env, name) ==
    Forward(e, env, "add_boundary_group", Kw("name", name),
            "mdb", "add_boundary_group", Kw("name", name),
            mdb_add_boundary_group(e.m, name), PyNone)

QtModelProvider_add_load_group(e, env, name) ==
    Forward(e, env, "add_load_group", Kw("name", name),
            "mdb", "add_load_group", Kw("name", name), e.m, PyNone)

QtModelProvider_add_master_slave_link(e, env, master_id, slave_ids, kwargs) ==
    Forward(e, env, "add_master_slave_link",
            kwargs @@ [master_id |-> master_id, slave_ids |-> slave_ids],
            "mdb", "add_master_slave_link",
            kwargs @@ [master_id |-> master_id, slave_ids |-> slave_ids], e.m, PyNone)

QtModelProvider_add_elastic_support(e, env, node_id, spring_values, kwargs) ==
    Forward(e, env, "add_elastic_support",
            kwargs @@ [node_id |-> node_id, spring_values |-> spring_values],
            "mdb", "add_elastic_support",
            kwargs @@ [node_id |-> node_id, spring_values |-> spring_values], e.m, PyNone)

QtModelProvider_add_standard_vehicle(e, env, name, vehicle_type, standard) ==
    Forward(e, env, "add_standard_vehicle",
            [name |-> name, vehicle_type |-> vehicle_type, standard |-> standard],
            "mdb", "add_standard_vehicle",
            [name |-> name, vehicle_type |-> vehicle_type, standard |-> standard],
            e.m, PyNone)

QtModelProvider_add_lane(e, env, name, kwargs) ==
    Forward(e, env, "add_lane", kwargs @@ Kw("name", name),
            "mdb", "add_lane_line", kwargs @@ Kw("name", name), e.m, PyNone)

QtModelProvider_add_live_load_case(e, env, name, kwargs) ==
    Forward(e, env, "add_live_load_case", kwargs @@ Kw("name", name),
            "mdb", "add_live_load_case", kwargs @@ Kw("name", name),
            mdb_add_load_case(e.m, name), PyNone)

QtModelProvider_get_live_load_results(e, env, case_name, result_type, ids) ==
    LET method == CASE result_type = "force" -> "get_element_force"
                    [] result_type = "stress" -> "get_element_stress"
                    [] result_type = "deformation" -> "get_deformation"
                    [] OTHER -> "get_element_force"
    IN Forward(e, env, "get_live_load_results",
               [case_name |-> case_name, result_type |-> result_type, ids |-> ids],
               "odb", method, [ids |-> ids, stage_id |-> -1, case_name |-> case_name],
               e.m, env.res)

\* add_self_weight: the gate, then mdb.add_load_case inside try / except: pass
QtModelProvider_add_self_weight(e, env, case_name) ==
    Called("add_self_weight", Kw("case_name", case_name),
           Do(QtModelProvider_require_available(e), LAMBDA g :
           Swallow(Vendor(g, env, "mdb", "add_load_case",
                          [name |-> case_name, case_type |-> 1],
                          mdb_add_load_case(g.m, case_name), PyNone))))

QtModelProvider_get_tendon_data(e, env) ==
    ReadOrEmpty(e, env, "get_tendon_data", "get_tendon_data", odb_get_tendon_data(e.m, env))

QtModelProvider_set_view_angle(e, env, horizontal, vertical) ==
    Forward(e, env, "set_view_angle", [horizontal |-> horizontal, vertical |-> vertical],
            "odb", "set_view_camera", [horizontal |-> horizontal, vertical |-> vertical],
            e.m, PyNone)

-----------------------------------------------------------------------------
\* Handlers.  A handler is enabled while the server is idle; its step runs the
\* whole handler and records the invocation.

Idle == tool = "none"

\* a handler without its except clause
TryExceptAbsent(e, head) == e

\* an except clause that also puts the vendor model back as it was
TryExceptRollback(e, head) ==
    Bind(e, LAMBDA x :
        IF x.exc # "none"
        THEN Return([Swallow(x) EXCEPT !.m = model], "error", head, <<ExcText(x.exc)>>)
        ELSE x)

\* try: <body> except Exception as e: return f"<head>: {e}"
TryExcept(e, head) ==
    Bind(e, LAMBDA x :
        IF x.exc # "none" THEN Return(Swallow(x), "error", head, <<ExcText(x.exc)>>) ELSE x)

\* The handler's result goes back to the MCP layer: its return value, or the
\* exception that left it.
Respond(name, a, body) ==
    \E e \in {body} :
    /\ tool' = name
    /\ args' = a
    /\ model' = e.m
    /\ pcalls' = e.pc
    /\ vcalls' = e.vc
    /\ ret' = IF e.exc # "none"
              THEN [kind |-> "raise", tag |-> e.exc, head |-> "", detail |-> <<>>]
              ELSE IF e.out.kind = "none"
              THEN [kind |-> "value", tag |-> "value", head |-> "", detail |-> <<e.val>>]
              ELSE e.out
    /\ UNCHANGED <<available, history>>

\* ---- tools/workflows.py

Pin == <<TRUE, TRUE, TRUE, FALSE, FALSE, FALSE>>

Roller == <<FALSE, TRUE, TRUE, FALSE, FALSE, FALSE>>

\* iterating or indexing the value of a provider read that is no list
NeedList(e) ==
    Bind(e, LAMBDA x : IF x.exc = "none" /\ x.val.t # "list" THEN Raise(x, "TypeError") ELSE x)

\* next((m.get("id", 1) for m in materials if m.get("name") == material_name), 1)
MatId(materials, material_name) ==
    IF HasName(materials, material_name)
    THEN LET i == CHOOSE k \in 1..Len(materials) :
                    /\ materials[k].name = material_name
                    /\ \A j \in 1..(k - 1) : materials[j].name # material_name
         IN materials[i].id
    ELSE 1

\* sections[0] if sections else 1
SecId(sections, section_name) == IF sections # <<>> THEN sections[1] ELSE 1

\* elements that join a node to itself
EleDataLoops(count, mat_id, sec_id) ==
    [i \in 1..count |-> <<i, 1, mat_id, sec_id, 0, i, i>>]

\* [[i + 1, 1, mat_id, sec_id, 0, i + 1, i + 2] for i in range(count)]
EleData(count, mat_id, sec_id) ==
    [i \in 1..count |-> <<i, 1, mat_id, sec_id, 0, i, i + 1>>]

\* [[i + 1, i * dx, 0.0, 0.0] for i in range(n)]
SimpleNodeData(n, dx) == [i \in 1..n |-> <<i, Times(i - 1, dx), 0, 0>>]

Mark(e, ok, skipped) == IF e.exc = "none" THEN ok ELSE skipped

SimpleLog(r1, r2, r9) ==
    <<Mark(r1, "material created", "material skipped"),
      Mark(r2, "section created", "section skipped"),
      "nodes created", "elements created", "supports set",
      Mark(r9, "self-weight added", "self-weight skipped")>>

simple_beam_body(env, span, num_elements, material_name, section_name, section_width, section_height, self_weight_case) ==
    LET n == num_elements + 1
        dx == Quot(span, num_elements)
    IN
    Bind(QtModelProvider_add_material(Start, env, material_name, 1, 1, material_name, NoKw),
         LAMBDA r1 :
    Bind(QtModelProvider_add_section(Swallow(r1), env, section_name, "rect",
                                     Kw("sec_info", <<section_width, section_height>>)),
         LAMBDA r2 :
    Do(IF num_elements = 0 THEN Raise(Swallow(r2), "ZeroDivisionError") ELSE Swallow(r2),
       LAMBDA d :
    Do(QtModelProvider_add_nodes(d, env, SimpleNodeData(n, dx), Kw("is_merged", TRUE)),
       LAMBDA e3 :
    Do(NeedList(QtModelProvider_get_material_data(e3, env)), LAMBDA e4 :
    Do(NeedList(QtModelProvider_get_section_names(e4, env)), LAMBDA e5 :
    Do(QtModelProvider_add_elements(e5, env,
            EleData(num_elements, MatId(e4.val.v, material_name),
                    SecId(e5.val.v, section_name)), NoKw), LAMBDA e6 :
    Do(QtModelProvider_add_general_support(e6, env, 1, Pin, NoKw), LAMBDA e7 :
    Do(QtModelProvider_add_general_support(e7, env, n, Roller, NoKw), LAMBDA e8 :
    Bind(QtModelProvider_add_self_weight(e8, env, self_weight_case), LAMBDA r9 :
    Return(Swallow(r9), "success", "Simple beam bridge created successfully!",
           SimpleLog(r1, r2, r9))))))))))))

create_simple_beam_bridge(env, span, num_elements, material_name, section_name, self_weight_case) ==
    /\ Idle
    /\ Respond("create_simple_beam_bridge",
               [span |-> span, num_elements |-> num_elements, material_name |-> material_name,
                section_name |-> section_name, self_weight_case |-> self_weight_case],
               TryExcept(simple_beam_body(env, span, num_elements, material_name,
                                          section_name, 1, 2, self_weight_case),
                         "Error creating simple beam bridge"))

\* for j in range(m): node_data.append([node_id, round(x, 6), 0.0, 0.0]); x += dx; node_id += 1
RECURSIVE SpanNodes(_, _, _, _)
SpanNodes(st, dx, j, m) ==
    IF j >= m THEN st
    ELSE SpanNodes([nd |-> Append(st.nd, <<st.id, Round6(st.x), 0, 0>>),
                    x |-> Plus(st.x, dx), id |-> st.id + 1],
                   dx, j + 1, m)

\* for span_len in spans: dx = span_len / m; <inner loop>   (m # 0)
RECURSIVE AllSpanNodes(_, _, _, _)
AllSpanNodes(st, spans, i, m) ==
    IF i > Len(spans) THEN st
    ELSE AllSpanNodes(SpanNodes(st, Quot(spans[i], m), 0, m), spans, i + 1, m)

RECURSIVE Sum(_)
Sum(s) == IF s = <<>> THEN 0 ELSE Head(s) + Sum(Tail(s))

ContinuousNodeData(spans, m) ==
    LET st == AllSpanNodes([nd |-> <<>>, x |-> <<0, 1>>, id |-> 1], spans, 1, m)
    IN Append(st.nd, <<st.id, Round6(<<Sum(spans), 1>>), 0, 0>>)

\* no support at the piers
PierSupportsAbsent(e, env, i, piers, node_at_pier, m) == e

\* for i, span_len in enumerate(spans[:-1]): node_at_pier += m; add_general_support(...)
RECURSIVE PierSupports(_, _, _, _, _, _)
PierSupports(e, env, i, piers, node_at_pier, m) ==
    IF i > piers THEN e
    ELSE Do(QtModelProvider_add_general_support(e, env, node_at_pier + m, Pin, NoKw),
            LAMBDA e1 : PierSupports(e1, env, i + 1, piers, node_at_pier + m, m))

ContinuousLog(r1, r9) ==
    <<Mark(r1, "material created", "material skipped"),
      "nodes created", "elements created", "left abutment", "piers",
      "right abutment", Mark(r9, "self-weight added", "self-weight skipped")>>

continuous_beam_body(env, spans, num_elements_per_span, material_name, section_name, self_weight_case) ==
    LET total_spans == Len(spans)
        total_elements == total_spans * num_elements_per_span
    IN
    Bind(QtModelProvider_add_material(Start, env, material_name, 1, 1, material_name, NoKw),
         LAMBDA r1 :
    Do(IF spans # <<>> /\ num_elements_per_span = 0
       THEN Raise(Swallow(r1), "ZeroDivisionError") ELSE Swallow(r1), LAMBDA d :
    Bind(ContinuousNodeData(spans, num_elements_per_span), LAMBDA node_data :
    Do(QtModelProvider_add_nodes(d, env, node_data, Kw("is_merged", TRUE)), LAMBDA e2 :
    Do(NeedList(QtModelProvider_get_material_data(e2, env)), LAMBDA e3 :
    Do(NeedList(QtModelProvider_get_section_names(e3, env)), LAMBDA e4 :
    Do(QtModelProvider_add_elements(e4, env,
            EleData(total_elements, MatId(e3.val.v, material_name),
                    SecId(e4.val.v, section_name)), NoKw), LAMBDA e5 :
    Do(QtModelProvider_add_general_support(e5, env, 1, Roller, NoKw), LAMBDA e6 :
    Do(PierSupports(e6, env, 1, total_spans - 1, 1, num_elements_per_span), LAMBDA e7 :
    Do(QtModelProvider_add_general_support(e7, env, Len(node_data), Roller, NoKw),
       LAMBDA e8 :
    Bind(QtModelProvider_add_self_weight(e8, env, self_weight_case), LAMBDA r9 :
    Return(Swallow(r9), "success", "Continuous beam bridge created!",
           ContinuousLog(r1, r9)))))))))))))

DefaultSpans == <<30, 50, 30>>

create_continuous_beam_bridge(env, spans, num_elements_per_span, material_name, section_name, self_weight_case) ==
    /\ Idle
    /\ Respond("create_continuous_beam_bridge",
               [spans |-> spans, num_elements_per_span |-> num_elements_per_span,
                material_name |-> material_name, section_name |-> section_name,
                self_weight_case |-> self_weight_case],
               TryExcept(continuous_beam_body(env, IF spans.t = "none" THEN DefaultSpans
                                                   ELSE spans.v,
                                              num_elements_per_span, material_name,
                                              section_name, self_weight_case),
                         "Error creating continuous beam bridge"))

\* ---- tools/__init__.py

\* kwargs[key] = value only `if value:`
IfTruthy(key, p) == IF Truthy(p) THEN Kw(key, p) ELSE NoKw

\* kwargs[key] = value only `if value is not None:`
IfNotNone(key, p) == IF p.t # "none" THEN Kw(key, p) ELSE NoKw

create_nodes(env, node_data, intersected, is_merged) ==
    /\ Idle
    /\ Respond("create_nodes",
               [node_data |-> node_data, intersected |-> intersected, is_merged |-> is_merged],
               TryExcept(
                   Do(QtModelProvider_add_nodes(Start, env, node_data,
                          [intersected |-> intersected, is_merged |-> is_merged]),
                      LAMBDA e1 :
                   Return(e1, "success", "Successfully created nodes",
                          <<IntStr(Len(node_data))>>)),
                   "Error creating nodes"))

create_elements(env, element_data) ==
    /\ Idle
    /\ Respond("create_elements", Kw("element_data", element_data),
               TryExcept(
                   Do(QtModelProvider_add_elements(Start, env, element_data, NoKw),
                      LAMBDA e1 :
                   Return(e1, "success", "Successfully created elements",
                          <<IntStr(Len(element_data))>>)),
                   "Error creating elements"))

create_material(env, name, mat_type, standard, database, data_info) ==
    /\ Idle
    /\ Respond("create_material",
               [name |-> name, mat_type |-> mat_type, standard |-> standard,
                database |-> database, data_info |-> data_info],
               TryExcept(
                   Do(QtModelProvider_add_material(Start, env, name, mat_type, standard,
                          database, IfTruthy("data_info", data_info)),
                      LAMBDA e1 :
                   Return(e1, "success", "Successfully created material", <<name>>)),
                   "Error creating material"))

create_section(env, name, sec_type, sec_info, box_height, box_num) ==
    /\ Idle
    /\ Respond("create_section",
               [name |-> name, sec_type |-> sec_type, sec_info |-> sec_info,
                box_height |-> box_height, box_num |-> box_num],
               TryExcept(
                   Do(QtModelProvider_add_section(Start, env, name, sec_type,
                          IfTruthy("sec_info", sec_info)
                          @@ IfNotNone("box_height", box_height)
                          @@ IfNotNone("box_num", box_num)),
                      LAMBDA e1 :
                   Return(e1, "success", "Successfully created section", <<name, sec_type>>)),
                   "Error creating section"))

set_support(env, node_id, dx, dy, dz, rx, ry, rz, group_name) ==
    /\ Idle
    /\ Respond("set_support",
               [node_id |-> node_id, boundary_info |-> <<dx, dy, dz, rx, ry, rz>>,
                group_name |-> group_name],
               TryExcept(
                   Do(QtModelProvider_add_general_support(Start, env, node_id,
                          <<dx, dy, dz, rx, ry, rz>>,
                          IfTruthy("group_name", PyStr(group_name))),
                      LAMBDA e1 :
                   Return(e1, "success", "Successfully set support on node(s)",
                          <<IntStr(node_id)>>)),
                   "Error setting support"))

apply_nodal_force(env, node_id, case_name, load_info, group_name) ==
    /\ Idle
    /\ Respond("apply_nodal_force",
               [node_id |-> node_id, case_name |-> case_name, load_info |-> load_info,
                group_name |-> group_name],
               TryExcept(
                   Do(QtModelProvider_add_nodal_force(Start, env, node_id, case_name,
                          load_info, IfTruthy("group_name", PyStr(group_name))),
                      LAMBDA e1 :
                   Return(e1, "success", "Successfully applied force to node(s)",
                          <<IntStr(node_id), case_name>>)),
                   "Error applying force"))

apply_beam_distributed_load(env, element_id, case_name, direction, load_values, load_positions, group_name) ==
    /\ Idle
    /\ Respond("apply_beam_distributed_load",
               [element_id |-> element_id, case_name |-> case_name, direction |-> direction,
                load_values |-> load_values, load_positions |-> load_positions,
                group_name |-> group_name],
               TryExcept(
                   Do(QtModelProvider_add_beam_element_load(Start, env, element_id,
                          case_name, 3,
                          Kw("coord_system", direction)
                          @@ IfTruthy("list_load", load_values)
                          @@ IfTruthy("list_x", load_positions)
                          @@ IfTruthy("group_name", PyStr(group_name))),
                      LAMBDA e1 :
                   Return(e1, "success", "Successfully applied distributed load on element(s)",
                          <<IntStr(element_id)>>)),
                   "Error applying distributed load"))

\* only the first row converted
TuplesOfFirstRow(rows) ==
    [t |-> "list", v |-> [i \in 1..1 |-> [t |-> "tuple", v |-> rows.v[i]]]]

\* [tuple(s) for s in rows]
Tuples(rows) == [t |-> "list", v |-> [i \in 1..Len(rows.v) |-> [t |-> "tuple", v |-> rows.v[i]]]]

IfTruthyTuples(key, p) == IF Truthy(p) THEN Kw(key, Tuples(p)) ELSE NoKw

add_construction_stage(env, name, duration, active_structures, active_boundaries, active_loads) ==
    /\ Idle
    /\ Respond("add_construction_stage",
               [name |-> name, duration |-> duration,
                active_structures |-> active_structures,
                active_boundaries |-> active_boundaries, active_loads |-> active_loads],
               TryExcept(
                   Do(QtModelProvider_add_construction_stage(Start, env, name, duration,
                          IfTruthyTuples("active_structures", active_structures)
                          @@ IfTruthyTuples("active_boundaries", active_boundaries)
                          @@ IfTruthyTuples("active_loads", active_loads)),
                      LAMBDA e1 :
                   Return(e1, "success", "Successfully added construction stage", <<name>>)),
                   "Error adding construction stage"))

configure_analysis(env, do_construction_stage, do_creep, do_vibration, vibration_modes, solver_type) ==
    /\ Idle
    /\ Respond("configure_analysis",
               [do_construction_stage |-> do_construction_stage, do_creep |-> do_creep,
                do_vibration |-> do_vibration, vibration_modes |-> vibration_modes,
                solver_type |-> solver_type],
               TryExcept(
                   Do(QtModelProvider_update_construction_stage_setting(Start, env,
                          [do_analysis |-> do_construction_stage,
                           do_creep_analysis |-> do_creep]),
                      LAMBDA e1 :
                   Do(IF do_vibration
                      THEN QtModelProvider_update_self_vibration_setting(e1, env,
                               [do_analysis |-> TRUE, mode_num |-> vibration_modes])
                      ELSE e1,
                      LAMBDA e2 :
                   Return(e2, "success", "Analysis configured",
                          <<do_construction_stage, do_creep, do_vibration>>))),
                   "Error configuring analysis"))

\* the six counts printed by validate_model
SummaryLines(summary) ==
    <<Str(summary.node_count), Str(summary.element_count),
      Str(summary.material_count), Str(summary.section_count),
      Str(summary.stage_count), Str(summary.load_case_count)>>

validate_model(env) ==
    /\ Idle
    /\ Respond("validate_model", NoKw,
               TryExcept(
                   Do(QtModelProvider_validate_model(Start, env), LAMBDA e1 :
                   Return(e1, "report",
                          IF e1.val.v.is_valid THEN "Model validation PASSED"
                          ELSE "Model validation FAILED",
                          SummaryLines(e1.val.v.summary) \o e1.val.v.errors
                          \o e1.val.v.warnings)),
                   "Error validating model"))

get_model_info(env) ==
    /\ Idle
    /\ Respond("get_model_info", NoKw,
               TryExcept(
                   Do(QtModelProvider_get_model_summary(Start, env), LAMBDA e1 :
                   Return(e1, "report", "Bridge Model Summary",
                          SummaryLines(e1.val.v)
                          \o <<Str(e1.val.v.structure_group_count),
                               Str(e1.val.v.boundary_group_count)>>)),
                   "Error getting model info"))

\* case_name passed whatever it is
CaseKwAlways(case_name) == Kw("case_name", case_name)

\* kwargs = {}; if case_name: kwargs["case_name"] = case_name
CaseKw(case_name) == IF case_name # "" THEN Kw("case_name", case_name) ELSE NoKw

analysis_results_body(env, result_type, ids, stage_id, case_name) ==
    CASE result_type = "deformation" ->
            Do(QtModelProvider_get_deformation(Start, env, ids, stage_id, CaseKw(case_name)),
               LAMBDA e1 : Return(e1, "result", Str(e1.val), <<>>))
      [] result_type = "force" ->
            Do(QtModelProvider_get_element_force(Start, env, ids, stage_id,
                                                 CaseKw(case_name)),
               LAMBDA e1 : Return(e1, "result", Str(e1.val), <<>>))
      [] result_type = "stress" ->
            Do(QtModelProvider_get_element_stress(Start, env, ids, stage_id,
                                                  CaseKw(case_name)),
               LAMBDA e1 : Return(e1, "result", Str(e1.val), <<>>))
      [] result_type = "reaction" ->
            Do(QtModelProvider_get_reaction(Start, env, ids, stage_id, CaseKw(case_name)),
               LAMBDA e1 : Return(e1, "result", Str(e1.val), <<>>))
      [] OTHER ->
            Return(Start, "unknown", "Unknown result_type", <<result_type>>)

get_analysis_results(env, result_type, ids, stage_id, case_name) ==
    /\ Idle
    /\ Respond("get_analysis_results",
               [result_type |-> result_type, ids |-> ids, stage_id |-> stage_id,
                case_name |-> case_name],
               TryExcept(analysis_results_body(env, result_type, ids, stage_id, case_name),
                         "Error getting results"))

\* ---- tools/group_management.py

create_structure_group(env, name, element_ids) ==
    /\ Idle
    /\ Respond("create_structure_group", [name |-> name, element_ids |-> element_ids],
               TryExcept(
                   Do(QtModelProvider_add_structure_group(Start, env, name), LAMBDA e1 :
                   IF element_ids.t # "none"
                   THEN Do(QtModelProvider_add_elements_to_structure_group(e1, env, name,
                               element_ids.v),
                           LAMBDA e2 :
                        Return(e2, "success", "Structure group created with elements",
                               <<name, Str(element_ids)>>))
                   ELSE Return(e1, "success", "Structure group created", <<name>>)),
                   "Error creating structure group"))

create_boundary_group(env, name) ==
    /\ Idle
    /\ Respond("create_boundary_group", Kw("name", name),
               TryExcept(
                   Do(QtModelProvider_add_boundary_group(Start, env, name), LAMBDA e1 :
                   Return(e1, "success", "Boundary group created", <<name>>)),
                   "Error creating boundary group"))

create_load_group(env, name) ==
    /\ Idle
    /\ Respond("create_load_group", Kw("name", name),
               TryExcept(
                   Do(QtModelProvider_add_load_group(Start, env, name), LAMBDA e1 :
                   Return(e1, "success", "Load group created", <<name>>)),
                   "Error creating load group"))

list_group_members_body(env, group_type, name) ==
    CASE group_type = "structure" ->
            Do(NeedList(QtModelProvider_get_structure_group_names(Start, env)), LAMBDA e1 :
            IF name \notin Range(e1.val.v)
            THEN Return(e1, "not found", "Structure group not found", <<name>>)
            ELSE Do(QtModelProvider_get_structure_group_elements(e1, env, name),
                    LAMBDA e2 :
                 Return(e2, "result", "Structure group elements", <<name, Str(e2.val)>>)))
      [] group_type = "boundary" ->
            Do(QtModelProvider_get_boundary_data(Start, env), LAMBDA e1 :
            Return(e1, "result", "All boundary groups",
                   <<"general_supports", "elastic_links", "elastic_supports",
                     "master_slave_links", "beam_constraints">>))
      [] group_type = "load" ->
            Do(QtModelProvider_get_load_case_names(Start, env), LAMBDA e1 :
            Return(e1, "result", "All load cases/groups", <<Str(e1.val)>>))
      [] OTHER ->
            Return(Start, "unknown", "group_type must be 'structure', 'boundary', or 'load'",
                   <<>>)

list_group_members(env, group_type, name) ==
    /\ Idle
    /\ Respond("list_group_members", [group_type |-> group_type, name |-> name],
               TryExcept(list_group_members_body(env, group_type, name),
                         "Error listing group members"))

add_elements_to_group(env, group_name, element_ids) ==
    /\ Idle
    /\ Respond("add_elements_to_group",
               [group_name |-> group_name, element_ids |-> element_ids],
               TryExcept(
                   Do(QtModelProvider_add_elements_to_structure_group(Start, env, group_name,
                          element_ids),
                      LAMBDA e1 :
                   Return(e1, "success", "Added elements to structure group",
                          <<group_name>>)),
                   "Error adding elements to group"))

merge_operation_stage(env, name) ==
    /\ Idle
    /\ Respond("merge_operation_stage", Kw("name", name),
               TryExcept(
                   Do(QtModelProvider_merge_all_stages(Start, env, name), LAMBDA e1 :
                   Return(e1, "success", "Successfully merged all stages into operation stage",
                          <<name>>)),
                   "Error merging stages"))

\* ---- tools/tendon.py

create_tendon_property(env, name, tendon_type) ==
    /\ Idle
    /\ Respond("create_tendon_property", [name |-> name, tendon_type |-> tendon_type],
               TryExcept(
                   Do(QtModelProvider_add_tendon_property(Start, env, name, tendon_type,
                          [elastic_modulus |-> "1.95e11", area |-> "0.0",
                           friction |-> "0.25", deviation |-> "0.003",
                           anchorage_loss |-> "0.006"]),
                      LAMBDA e1 :
                   Return(e1, "success", "Tendon property created",
                          <<name, IF tendon_type = 1 THEN "post-tensioned"
                                  ELSE "pre-tensioned">>)),
                   "Error creating tendon property"))

create_tendon_2d(env, name, property_name, element_ids, control_points, tension_type, group_name) ==
    /\ Idle
    /\ Respond("create_tendon_2d",
               [name |-> name, property_name |-> property_name, element_ids |-> element_ids,
                control_points |-> control_points, tension_type |-> tension_type,
                group_name |-> group_name],
               TryExcept(
                   Do(QtModelProvider_add_tendon_2d(Start, env, name, property_name,
                          IfTruthy("group_name", PyStr(group_name))
                          @@ [element_ids |-> element_ids,
                              control_points |-> control_points,
                              tension_type |-> tension_type]),
                      LAMBDA e1 :
                   Return(e1, "success", "2D Tendon created", <<name>>)),
                   "Error creating 2D tendon"))

\* for tn in names: provider.add_pre_stress(case_name, tn, force, **kwargs)
RECURSIVE PreStressEach(_, _, _, _, _, _, _)
PreStressEach(e, env, names, i, case_name, force, kwargs) ==
    IF i > Len(names) THEN e
    ELSE Do(QtModelProvider_add_pre_stress(e, env, case_name, names[i], force, kwargs),
            LAMBDA e1 : PreStressEach(e1, env, names, i + 1, case_name, force, kwargs))

\* f"{force/1000:.0f}": a number divides, anything else is a TypeError
ForceText(e, force) == IF force.t = "int" THEN e ELSE Raise(e, "TypeError")

apply_prestress(env, case_name, tendon_name, force, group_name) ==
    /\ Idle
    /\ Respond("apply_prestress",
               [case_name |-> case_name, tendon_name |-> tendon_name, force |-> force,
                group_name |-> group_name],
               TryExcept(
                   Do(PreStressEach(Start, env,
                          IF tendon_name.t = "str" THEN <<tendon_name.v>> ELSE tendon_name.v,
                          1, case_name, force, IfTruthy("group_name", PyStr(group_name))),
                      LAMBDA e1 :
                   Do(ForceText(e1, force), LAMBDA e2 :
                   Return(e2, "success", "Prestress applied", <<case_name>>))),
                   "Error applying prestress"))

\* [t for t in tendon_data if t.get("name") == tendon_name]
Filtered(tendon_data, tendon_name) == SelectSeq(tendon_data, LAMBDA t : t.name = tendon_name)

get_tendon_info(env, tendon_name) ==
    /\ Idle
    /\ Respond("get_tendon_info", Kw("tendon_name", tendon_name),
               TryExcept(
                   Do(NeedList(QtModelProvider_get_tendon_data(Start, env)), LAMBDA e1 :
                   IF tendon_name # ""
                   THEN IF Filtered(e1.val.v, tendon_name) = <<>>
                        THEN Return(e1, "not found", "Tendon not found", <<tendon_name>>)
                        ELSE Return(e1, "result", "Tendon info", <<tendon_name>>)
                   ELSE Return(e1, "result", "Total tendon(s)",
                               <<IntStr(Len(e1.val.v))>>)),
                   "Error getting tendon info"))

\* ---- tools/advanced_boundary.py

\* link_type_names.get(link_type, str(link_type))
link_type_names(link_type) ==
    CASE link_type = 1 -> "Rigid"
      [] link_type = 2 -> "Rigid arm"
      [] link_type = 3 -> "General elastic"
      [] link_type = 4 -> "Fixed-end"
      [] link_type = 5 -> "Master-slave"
      [] OTHER -> IntStr(link_type)

add_elastic_link(env, link_type, start_node_id, end_node_id, stiffness_values, group_name) ==
    /\ Idle
    /\ Respond("add_elastic_link",
               [link_type |-> link_type, start_node_id |-> start_node_id,
                end_node_id |-> end_node_id, stiffness_values |-> stiffness_values,
                group_name |-> group_name],
               TryExcept(
                   Do(QtModelProvider_add_elastic_link(Start, env, link_type, start_node_id,
                          end_node_id,
                          IfTruthy("stiffness", stiffness_values)
                          @@ IfTruthy("group_name", PyStr(group_name))),
                      LAMBDA e1 :
                   Return(e1, "success", "Elastic link added",
                          <<link_type_names(link_type), IntStr(start_node_id),
                            IntStr(end_node_id)>>)),
                   "Error adding elastic link"))

add_master_slave_link(env, master_node_id, slave_node_ids, dof_constraints, group_name) ==
    /\ Idle
    /\ Respond("add_master_slave_link",
               [master_node_id |-> master_node_id, slave_node_ids |-> slave_node_ids,
                dof_constraints |-> dof_constraints, group_name |-> group_name],
               TryExcept(
                   Do(QtModelProvider_add_master_slave_link(Start, env, master_node_id,
                          slave_node_ids,
                          IfTruthy("dof_constraints", dof_constraints)
                          @@ IfTruthy("group_name", PyStr(group_name))),
                      LAMBDA e1 :
                   Return(e1, "success", "Master-slave link added",
                          <<IntStr(master_node_id)>>)),
                   "Error adding master-slave link"))

add_elastic_support(env, node_id, spring_values, group_name) ==
    /\ Idle
    /\ Respond("add_elastic_support",
               [node_id |-> node_id, spring_values |-> spring_values,
                group_name |-> group_name],
               TryExcept(
                   Do(QtModelProvider_add_elastic_support(Start, env, node_id, spring_values,
                          IfTruthy("group_name", PyStr(group_name))),
                      LAMBDA e1 :
                   Return(e1, "success", "Elastic support added", <<IntStr(node_id)>>)),
                   "Error adding elastic support"))

\* ---- tools/visualization.py

DEFAULT_IMAGE_DIR == "~/bridge_mcp_images"

\* os.makedirs(path, exist_ok=True): the file system lets it succeed or not
ensure_dir(e, dir_ok) == IF dir_ok THEN e ELSE Raise(e, "OSError")

AnglePresets == {"iso", "front", "side", "top"}

angle_map(preset) ==
    CASE preset = "iso" -> <<45, 35>>
      [] preset = "front" -> <<0, 0>>
      [] preset = "side" -> <<90, 0>>
      [] preset = "top" -> <<0, 90>>

save_model_screenshot(env, dir_ok, file_path, view_angle) ==
    LET path == IF file_path = "" THEN "~/bridge_mcp_images/model_view.png" ELSE file_path
    IN
    /\ Idle
    /\ Respond("save_model_screenshot", [file_path |-> file_path, view_angle |-> view_angle],
               TryExcept(
                   Do(IF file_path = "" THEN ensure_dir(Start, dir_ok) ELSE Start, LAMBDA e1 :
                   Do(IF view_angle \in AnglePresets
                      THEN Swallow(QtModelProvider_set_view_angle(e1, env,
                                       angle_map(view_angle)[1], angle_map(view_angle)[2]))
                      ELSE e1,
                      LAMBDA e2 :
                   Do(QtModelProvider_save_model_image(e2, env, path), LAMBDA e3 :
                   Return(e3, "success", "Screenshot saved to", <<path>>)))),
                   "Error saving screenshot"))

plot_analysis_result(env, dir_ok, result_type, stage_id, case_name, component, file_path) ==
    LET path == IF file_path = "" THEN "~/bridge_mcp_images/result.png" ELSE file_path
    IN
    /\ Idle
    /\ Respond("plot_analysis_result",
               [result_type |-> result_type, stage_id |-> stage_id, case_name |-> case_name,
                component |-> component, file_path |-> file_path],
               TryExcept(
                   Do(IF file_path = "" THEN ensure_dir(Start, dir_ok) ELSE Start, LAMBDA e1 :
                   Do(QtModelProvider_plot_result(e1, env, result_type, path,
                          Kw("stage_id", stage_id)
                          @@ CaseKw(case_name)
                          @@ (IF component # "" THEN Kw("component", component) ELSE NoKw)),
                      LAMBDA e2 :
                   Return(e2, "success", "Result plot saved to", <<path>>))),
                   "Error plotting result"))

set_view_angle(env, angle_preset, horizontal, vertical) ==
    LET h == IF angle_preset = "custom" THEN horizontal ELSE PyInt(angle_map(angle_preset)[1])
        v == IF angle_preset = "custom" THEN vertical ELSE PyInt(angle_map(angle_preset)[2])
    IN
    /\ Idle
    /\ Respond("set_view_angle",
               [angle_preset |-> angle_preset, horizontal |-> horizontal,
                vertical |-> vertical],
               TryExcept(
                   IF angle_preset # "custom" /\ angle_preset \notin AnglePresets
                   THEN Return(Start, "unknown", "Unknown preset", <<angle_preset>>)
                   ELSE Do(QtModelProvider_set_view_angle(Start, env, h, v), LAMBDA e1 :
                        Return(e1, "success", "View angle set to", <<angle_preset>>)),
                   "Error setting view angle"))

\* ---- tools/moving_load.py

add_standard_vehicle(env, name, vehicle_type, standard) ==
    /\ Idle
    /\ Respond("add_standard_vehicle",
               [name |-> name, vehicle_type |-> vehicle_type, standard |-> standard],
               TryExcept(
                   Do(QtModelProvider_add_standard_vehicle(Start, env, name, vehicle_type,
                          standard),
                      LAMBDA e1 :
                   Return(e1, "success", "Standard vehicle added",
                          <<name, IF standard = 1 THEN "JTG D60" ELSE "TB 10002",
                            IntStr(vehicle_type)>>)),
                   "Error adding standard vehicle"))

add_traffic_lane(env, name, lane_width, lateral_offset, element_ids) ==
    /\ Idle
    /\ Respond("add_traffic_lane",
               [name |-> name, lane_width |-> lane_width, lateral_offset |-> lateral_offset,
                element_ids |-> element_ids],
               TryExcept(
                   Do(QtModelProvider_add_lane(Start, env, name,
                          [lane_width |-> lane_width, lateral_offset |-> lateral_offset,
                           element_ids |-> element_ids]),
                      LAMBDA e1 :
                   Return(e1, "success", "Traffic lane defined", <<name, lane_width>>)),
                   "Error defining traffic lane"))

create_live_load_case(env, name, vehicle_names, lane_names, load_factor, impact_factor) ==
    /\ Idle
    /\ Respond("create_live_load_case",
               [name |-> name, vehicle_names |-> vehicle_names, lane_names |-> lane_names,
                load_factor |-> load_factor, impact_factor |-> impact_factor],
               TryExcept(
                   Do(QtModelProvider_add_live_load_case(Start, env, name,
                          [vehicle_names |-> vehicle_names, lane_names |-> lane_names,
                           load_factor |-> load_factor, impact_factor |-> impact_factor]),
                      LAMBDA e1 :
                   Return(e1, "success", "Live load case created",
                          <<name, IntStr(Len(vehicle_names)), IntStr(Len(lane_names))>>)),
                   "Error creating live load case"))

get_live_load_results(env, case_name, result_type, element_ids) ==
    /\ Idle
    /\ Respond("get_live_load_results",
               [case_name |-> case_name, result_type |-> result_type,
                element_ids |-> element_ids],
               TryExcept(
                   Do(QtModelProvider_get_live_load_results(Start, env, case_name,
                          result_type, element_ids),
                      LAMBDA e1 :
                   Return(e1, "result", Str(e1.val), <<>>)),
                   "Error getting live load results"))

\* ---- tools/checking.py

setup_concrete_check(env, name, standard, structure_type, group_name) ==
    /\ Idle
    /\ Respond("setup_concrete_check",
               [name |-> name, standard |-> standard, structure_type |-> structure_type,
                group_name |-> group_name],
               TryExcept(
                   Do(QtModelProvider_add_concrete_check_case(Start, env, name, standard,
                          structure_type, group_name),
                      LAMBDA e1 :
                   Return(e1, "success", "Concrete check case created", <<name, group_name>>)),
                   "Error setting up concrete check"))

\* factors = load_case_factors or []
Factors(load_case_factors) ==
    IF Truthy(load_case_factors) THEN load_case_factors.v ELSE <<>>

\* [(row[0], row[1], row[2]) for row in factors]
factors_tuple(factors) ==
    [i \in 1..Len(factors) |-> <<factors[i][1], factors[i][2], factors[i][3]>>]

add_check_load_combination(env, name, standard, kind, load_case_factors, combine_type) ==
    /\ Idle
    /\ Respond("add_check_load_combination",
               [name |-> name, standard |-> standard, kind |-> kind,
                load_case_factors |-> load_case_factors, combine_type |-> combine_type],
               TryExcept(
                   Do(IF \E i \in 1..Len(Factors(load_case_factors)) :
                            Len(Factors(load_case_factors)[i]) < 3
                      THEN Raise(Start, "IndexError") ELSE Start,
                      LAMBDA e1 :
                   Do(QtModelProvider_add_check_load_combine(e1, env, name, standard, kind,
                          [combine_type |-> combine_type,
                           load_case_factors |-> factors_tuple(Factors(load_case_factors))]),
                      LAMBDA e2 :
                   Return(e2, "success", "Load combination added",
                          <<name, IntStr(Len(Factors(load_case_factors)))>>))),
                   "Error adding load combination"))

run_concrete_check(env, name) ==
    /\ Idle
    /\ Respond("run_concrete_check", Kw("name", name),
               TryExcept(
                   Do(QtModelProvider_solve_concrete_check(Start, env, name), LAMBDA e1 :
                   Return(e1, "success", "Concrete check completed", <<name>>)),
                   "Error running concrete check"))

add_parametric_reinforcement(env, section_id, position, has_outer, has_inner, outer_rebar_info, inner_rebar_info) ==
    /\ Idle
    /\ Respond("add_parametric_reinforcement",
               [section_id |-> section_id, position |-> position, has_outer |-> has_outer,
                has_inner |-> has_inner, outer_rebar_info |-> outer_rebar_info,
                inner_rebar_info |-> inner_rebar_info],
               TryExcept(
                   Do(QtModelProvider_add_parameter_reinforcement(Start, env, section_id,
                          IfTruthyTuples("outer_info", outer_rebar_info)
                          @@ IfTruthyTuples("inner_info", inner_rebar_info)
                          @@ [position |-> position, has_outer |-> has_outer,
                              has_inner |-> has_inner]),
                      LAMBDA e1 :
                   Return(e1, "success", "Parametric reinforcement added",
                          <<IntStr(section_id), IF position = 0 THEN "I" ELSE "J">>)),
                   "Error adding parametric reinforcement"))

\* ---- resources/__init__.py

\* json.dumps: a vendor object that is no list, dict, string or number cannot be
\* encoded; a dict is encoded member by member
Encodable(p) ==
    IF p.t = "dict" THEN \A k \in DOMAIN p.v : p.v[k].t # "object" ELSE p.t # "object"

JsonLeaf(p) ==
    CASE p.t = "none" -> [j |-> "null"]
      [] p.t = "list" -> [j |-> "array", items |-> p.v]
      [] p.t = "int" -> [j |-> "number", n |-> p.v]
      [] OTHER -> [j |-> "string", s |-> p.v]

JsonText(p) ==
    IF p.t = "dict"
    THEN [j |-> "object", members |-> [k \in DOMAIN p.v |-> JsonLeaf(p.v[k])]]
    ELSE JsonLeaf(p)

json_dumps(e) ==
    Bind(e, LAMBDA x :
        IF x.exc # "none" THEN x
        ELSE IF Encodable(x.val) THEN Return(x, "json", "", <<JsonText(x.val)>>)
        ELSE Raise(x, "TypeError"))

\* a resource handler without its except clause
ResourceExceptAbsent(e) == e

\* except Exception as e: return json.dumps({"error": str(e)})
ResourceExcept(e) ==
    Bind(e, LAMBDA x :
        IF x.exc # "none"
        THEN Return(Swallow(x), "json", "",
                    <<JsonText([t |-> "dict", v |-> [error |-> PyStr(ExcText(x.exc))]])>>)
        ELSE x)

model_summary(env) ==
    /\ Idle
    /\ Respond("model_summary", NoKw,
               ResourceExcept(json_dumps(QtModelProvider_get_model_summary(Start, env))))

model_materials(env) ==
    /\ Idle
    /\ Respond("model_materials", NoKw,
               ResourceExcept(json_dumps(QtModelProvider_get_material_data(Start, env))))

model_sections(env) ==
    /\ Idle
    /\ Respond("model_sections", NoKw,
               ResourceExcept(json_dumps(QtModelProvider_get_section_names(Start, env))))

model_load_cases(env) ==
    /\ Idle
    /\ Respond("model_load_cases", NoKw,
               ResourceExcept(json_dumps(QtModelProvider_get_load_case_names(Start, env))))

model_stages(env) ==
    /\ Idle
    /\ Respond("model_stages", NoKw,
               ResourceExcept(json_dumps(QtModelProvider_get_stage_names(Start, env))))

model_structure_groups(env) ==
    /\ Idle
    /\ Respond("model_structure_groups", NoKw,
               ResourceExcept(json_dumps(
                   QtModelProvider_get_structure_group_names(Start, env))))

model_boundaries(env) ==
    /\ Idle
    /\ Respond("model_boundaries", NoKw,
               ResourceExcept(json_dumps(QtModelProvider_get_boundary_data(Start, env))))

\* ---- provider operations no handler reaches, called directly

call_get_node_data(env, ids) ==
    /\ Idle
    /\ Respond("QtModelProvider.get_node_data", Kw("ids", ids),
               QtModelProvider_get_node_data(Start, env, ids))

call_get_element_data(env, ids) ==
    /\ Idle
    /\ Respond("QtModelProvider.get_element_data", Kw("ids", ids),
               QtModelProvider_get_element_data(Start, env, ids))

call_get_section_data(env, sec_id, position) ==
    /\ Idle
    /\ Respond("QtModelProvider.get_section_data", [sec_id |-> sec_id, position |-> position],
               QtModelProvider_get_section_data(Start, env, sec_id, position))

call_plot_result(env, result_type, file_path, kwargs) ==
    /\ Idle
    /\ Respond("QtModelProvider.plot_result",
               kwargs @@ [result_type |-> result_type, file_path |-> file_path],
               QtModelProvider_plot_result(Start, env, result_type, file_path, kwargs))

call_update_project_setting(env, kwargs) ==
    /\ Idle
    /\ Respond("QtModelProvider.update_project_setting", kwargs,
               QtModelProvider_update_project_setting(Start, env, kwargs))

\* add_self_weight as the first provider call of a caller
call_add_self_weight(env, case_name) ==
    /\ Idle
    /\ Respond("QtModelProvider.add_self_weight", Kw("case_name", case_name),
               QtModelProvider_add_self_weight(Start, env, case_name))

-----------------------------------------------------------------------------
\* Inputs.

\* the sets of at most n call ordinals among the first k
RECURSIVE FailSetsOf(_, _)
FailSetsOf(k, n) ==
    IF n = 0 THEN {{}}
    ELSE LET fewer == FailSetsOf(k, n - 1)
         IN fewer \cup {F \cup {i} : F \in fewer, i \in 1..k}

FailSets == FailSetsOf(MaxVendorCalls, MaxFails)

Answers == {"list", "none", "object"}

Results == {PyStr("result"), PyInt(7), PyNone}

Overlaps == {PyNone, PyList(<<>>), PyList(<<<<1, 2>>>>), PyInt(7)}

\* The vendor's behaviour during one invocation: which of its calls raise, how it
\* answers list queries, what a result query answers and what the overlap queries
\* answer.
Env(F, ans, res, ovn, ove) == [F |-> F, ans |-> ans, res |-> res, ovn |-> ovn, ove |-> ove]

Envs == {Env(F, ans, PyStr("result"), PyNone, PyNone) : F \in FailSets, ans \in Answers}

NumElements == -1..MaxNumElements

SpanLengths == {-10, 0, 10}

RECURSIVE SeqsUpTo(_, _)
SeqsUpTo(S, n) ==
    IF n = 0 THEN {<<>>}
    ELSE LET shorter == SeqsUpTo(S, n - 1)
         IN shorter \cup {Append(q, x) : q \in shorter, x \in S}

SpanLists == {PyNone} \cup {PyList(q) : q \in SeqsUpTo({10, 20}, MaxSpans)}

MaterialNames == {"C50"}

SectionNames == {"rect", "box"}

\* model contents a session can start from (a model opened in the vendor program)
PriorMats ==
    {<<>>, <<[id |-> 1, name |-> "C50"]>>,
     <<[id |-> 1, name |-> "Q345"], [id |-> 2, name |-> "C50"]>>}

PriorSecs ==
    {<<>>, <<[id |-> 1, name |-> "rect"]>>,
     <<[id |-> 1, name |-> "box"], [id |-> 2, name |-> "rect"]>>,
     <<[id |-> 3, name |-> "box"]>>}

\* nodes, elements and supported nodes
PriorMesh == {<<{}, {}, {}>>, <<{1, 2}, {}, {}>>, <<{1, 2}, {1}, {1}>>}

InitModels ==
    {[EmptyModel EXCEPT !.mats = ma, !.secs = se, !.nodes = me[1], !.elems = me[2],
                        !.sup = me[3]] :
        ma \in PriorMats, se \in PriorSecs, me \in PriorMesh}

\* _try_import either binds mdb / odb to the running program, whose model may
\* already have content, or leaves the provider unavailable with no model behind it
Init ==
    /\ available \in BOOLEAN
    /\ model \in (IF available THEN InitModels ELSE {EmptyModel})
    /\ tool = "none"
    /\ args = NoKw
    /\ pcalls = <<>>
    /\ vcalls = <<>>
    /\ ret = NoOut
    /\ history = <<>>

\* vendor behaviours for a handler that makes at most k vendor calls
EnvsFor(k, answers, results, overlaps) ==
    {Env(F, ans, res, ovn, ove) :
        F \in FailSetsOf(k, MaxFails), ans \in answers, res \in results,
        ovn \in overlaps, ove \in overlaps}

Writes(k) == EnvsFor(k, {"list"}, {PyNone}, {PyNone})

Reads(k) == EnvsFor(k, Answers, {PyNone}, {PyNone})

Queries == EnvsFor(1, {"list"}, Results, {PyNone})

NodeLists == {<<>>, <<<<1, <<0, 1>>, 0, 0>>, <<2, <<5, 1>>, 0, 0>>>>}

ElementLists == {<<>>, <<<<1, 1, 1, 1, 0, 1, 2>>>>}

OptLists == {PyNone, PyList(<<>>), PyList(<<<<"G1", 7>>>>)}

IdLists == {PyNone, PyList(<<1, 2>>)}

GroupNames == {"", "G1"}

ResultTypes == {"deformation", "force", "stress", "reaction", "moment"}

FactorLists == {PyNone, PyList(<<<<"DL", 1, 1>>>>), PyList(<<<<"DL", 1>>>>)}

\* mcp.run: the response is delivered and the server waits for the next request;
\* nothing of the invocation stays in the adapter, the vendor model stays as it is
Await ==
    /\ tool # "none"
    /\ Len(history) < MaxHistory
    /\ history' = Append(history, [tool |-> tool, args |-> args, pcalls |-> pcalls,
                                   vcalls |-> vcalls, ret |-> ret])
    /\ tool' = "none"
    /\ args' = NoKw
    /\ pcalls' = <<>>
    /\ vcalls' = <<>>
    /\ ret' = NoOut
    /\ UNCHANGED <<available, model>>

\* ---- the workflow tools alone, on every prior model
SimpleBeam ==
    Idle /\ \E env \in Envs, span \in SpanLengths, n \in NumElements, mat \in MaterialNames,
       sec \in SectionNames :
        create_simple_beam_bridge(env, span, n, mat, sec, "SW")

ContinuousBeam ==
    Idle /\ \E env \in Envs, spans \in SpanLists, n \in NumElements, mat \in MaterialNames :
        create_continuous_beam_bridge(env, spans, n, mat, "rect", "SW")

NextWorkflow == SimpleBeam \/ ContinuousBeam

SpecWorkflow == Init /\ [][NextWorkflow]_vars

\* ---- the read-only handlers: result queries, validation, resources
NextQuery ==
    \/ Idle /\ \E env \in Queries, rt \in ResultTypes, ids \in {PyInt(1), PyList(<<1, 2>>)},
          stage_id \in {-1, 2}, case_name \in {"", "DL"} :
            get_analysis_results(env, rt, ids, stage_id, case_name)
    \/ Idle /\ \E env \in EnvsFor(MaxVendorCalls, Answers, {PyNone}, Overlaps) : validate_model(env)
    \/ Idle /\ \E env \in Reads(8) : get_model_info(env)
    \/ Idle /\ \E env \in Reads(8) : model_summary(env)
    \/ Idle /\ \E env \in Reads(1) : model_materials(env)
    \/ Idle /\ \E env \in Reads(1) : model_sections(env)
    \/ Idle /\ \E env \in Reads(1) : model_load_cases(env)
    \/ Idle /\ \E env \in Reads(1) : model_stages(env)
    \/ Idle /\ \E env \in Reads(1) : model_structure_groups(env)
    \/ Idle /\ \E env \in Reads(5) : model_boundaries(env)

SpecQuery == Init /\ [][NextQuery]_vars

\* ---- a session on a new project: analysis configuration and result queries,
\* one request after another
InitSession == Init /\ model = EmptyModel

SessionQueries == EnvsFor(1, {"list"}, {PyInt(7)}, {PyNone})

NextSession ==
    \/ Idle /\ \E env \in Writes(2), vib \in BOOLEAN, solver \in {0, 1} :
            configure_analysis(env, TRUE, FALSE, vib, 10, solver)
    \/ Idle /\ \E env \in SessionQueries, case_name \in {"", "DL"} :
            get_analysis_results(env, "stress", PyInt(1), -1, case_name)
    \/ Await

SpecSession == InitSession /\ [][NextSession]_vars

\* ---- the handlers that reshape their arguments: construction stages and plots
StageLists ==
    {PyNone, PyList(<<>>), PyList(<<<<"G1", 7>>>>), PyList(<<<<"G1", 0>>, <<"G2", 1>>>>)}

PlotRequests == PlotTypes \cup {"other", ""}

NextReshape ==
    \/ Idle /\ \E env \in Writes(1), st \in StageLists, bo \in StageLists, lo \in StageLists :
            add_construction_stage(env, "S1", 10, st, bo, lo)
    \/ Idle /\ \E env \in Writes(1), dir_ok \in BOOLEAN, rt \in PlotRequests,
          case_name \in {"", "DL"}, component \in {"", "uy"}, fp \in {"", "a.png"} :
            plot_analysis_result(env, dir_ok, rt, -1, case_name, component, fp)
    \/ Idle /\ \E env \in Writes(1), rt \in PlotRequests, kw \in {NoKw, Kw("stage_id", 2)} :
            call_plot_result(env, rt, "a.png", kw)

SpecReshape == Init /\ [][NextReshape]_vars

\* ---- every handler
NextModeling ==
    \/ Idle /\ \E env \in Writes(1), nd \in NodeLists, b \in BOOLEAN : create_nodes(env, nd, b, TRUE)
    \/ Idle /\ \E env \in Writes(1), ed \in ElementLists : create_elements(env, ed)
    \/ Idle /\ \E env \in Writes(1), db \in {"", "C50"}, di \in {PyNone, PyList(<<1, 2, 3, 4>>)} :
            create_material(env, "C50", 1, 1, db, di)
    \/ Idle /\ \E env \in Writes(1), si \in {PyNone, PyList(<<1, 2>>)}, bh \in {PyNone, PyInt(2)} :
            create_section(env, "rect", "rect", si, bh, PyNone)
    \/ Idle /\ \E env \in Writes(1), dx \in BOOLEAN, g \in GroupNames :
            set_support(env, 1, dx, TRUE, TRUE, FALSE, FALSE, FALSE, g)
    \/ Idle /\ \E env \in Writes(1), g \in GroupNames :
            apply_nodal_force(env, 1, "DL", <<0, 0, -10, 0, 0, 0>>, g)
    \/ Idle /\ \E env \in Writes(1), lv \in {PyNone, PyList(<<-10, -10>>)}, g \in GroupNames :
            apply_beam_distributed_load(env, 1, "DL", 3, lv, PyNone, g)
    \/ Idle /\ \E env \in Writes(1), st \in OptLists, bo \in OptLists :
            add_construction_stage(env, "S1", 10, st, bo, PyNone)
    \/ Idle /\ \E env \in Writes(2), cs \in BOOLEAN, vib \in BOOLEAN, solver \in {0, 1} :
            configure_analysis(env, cs, FALSE, vib, 10, solver)
    \/ Idle /\ \E env \in Reads(2), rt \in ResultTypes :
            get_analysis_results(env, rt, PyInt(1), -1, "")
    \/ Idle /\ \E env \in Reads(MaxVendorCalls) : validate_model(env)
    \/ Idle /\ \E env \in Reads(8) : get_model_info(env)

NextGroups ==
    \/ Idle /\ \E env \in Writes(2), ids \in IdLists : create_structure_group(env, "G1", ids)
    \/ Idle /\ \E env \in Writes(1) : create_boundary_group(env, "B1")
    \/ Idle /\ \E env \in Writes(1) : create_load_group(env, "L1")
    \/ Idle /\ \E env \in Reads(2), gt \in {"structure", "boundary", "load", "other"},
          name \in {"G1"} :
            list_group_members(env, gt, name)
    \/ Idle /\ \E env \in Writes(1) : add_elements_to_group(env, "G1", <<1>>)
    \/ Idle /\ \E env \in Writes(1) : merge_operation_stage(env, "operation")

NextTendon ==
    \/ Idle /\ \E env \in Writes(1), tt \in {1, 2} : create_tendon_property(env, "T", tt)
    \/ Idle /\ \E env \in Writes(1), g \in GroupNames :
            create_tendon_2d(env, "T1", "T", <<1>>, <<<<0, 0>>, <<1, 0>>>>, 3, g)
    \/ Idle /\ \E env \in Writes(2), tn \in {PyStr("T1"), PyList(<<"T1", "T2">>), PyList(<<>>)},
          force \in {PyInt(3), PyStr("3000kN")} :
            apply_prestress(env, "PS", tn, force, "")
    \/ Idle /\ \E env \in Reads(1), tn \in {"", "T1"} : get_tendon_info(env, tn)

NextBoundary ==
    \/ Idle /\ \E env \in Writes(1), lt \in {1, 7}, sv \in {PyNone, PyList(<<1, 1, 1>>)} :
            add_elastic_link(env, lt, 1, 2, sv, "")
    \/ Idle /\ \E env \in Writes(1), dof \in {PyNone, PyList(<<TRUE, TRUE>>)} :
            add_master_slave_link(env, 1, <<2>>, dof, "")
    \/ Idle /\ \E env \in Writes(1), g \in GroupNames :
            add_elastic_support(env, 1, <<1, 1, 1, 0, 0, 0>>, g)

NextVisualization ==
    \/ Idle /\ \E env \in Writes(2), dir_ok \in BOOLEAN, fp \in {"", "a.png"},
          va \in {"iso", "none"} :
            save_model_screenshot(env, dir_ok, fp, va)
    \/ Idle /\ \E env \in Writes(1), dir_ok \in BOOLEAN, rt \in {"displacement", "modal", "other"},
          fp \in {"", "a.png"} :
            plot_analysis_result(env, dir_ok, rt, -1, "", "", fp)
    \/ Idle /\ \E env \in Writes(1), preset \in {"iso", "custom", "other"} :
            set_view_angle(env, preset, PyNone, PyNone)

NextMovingLoad ==
    \/ Idle /\ \E env \in Writes(1), std \in {1, 2} : add_standard_vehicle(env, "V1", 1, std)
    \/ Idle /\ \E env \in Writes(1) : add_traffic_lane(env, "L1", "3.75", "0.0", <<1>>)
    \/ Idle /\ \E env \in Writes(1) : create_live_load_case(env, "LL", <<"V1">>, <<"L1">>, "1.0", "1.0")
    \/ Idle /\ \E env \in Queries, rt \in {"force", "stress", "deformation", "other"} :
            get_live_load_results(env, "LL", rt, <<1>>)

NextChecking ==
    \/ Idle /\ \E env \in Writes(1), std \in {1, 2} : setup_concrete_check(env, "CK", std, 3, "G1")
    \/ Idle /\ \E env \in Writes(1), lcf \in FactorLists :
            add_check_load_combination(env, "LC", 1, 3, lcf, 1)
    \/ Idle /\ \E env \in Writes(1) : run_concrete_check(env, "CK")
    \/ Idle /\ \E env \in Writes(1), outer \in OptLists, pos \in {0, 1} :
            add_parametric_reinforcement(env, 1, pos, TRUE, TRUE, outer, PyNone)

NextWorkflowTools ==
    \/ Idle /\ \E env \in Envs, n \in NumElements :
            create_simple_beam_bridge(env, 10, n, "C50", "rect", "SW")
    \/ Idle /\ \E env \in Envs, spans \in {PyNone, PyList(<<10, 20>>)}, n \in NumElements :
            create_continuous_beam_bridge(env, spans, n, "C50", "rect", "SW")

NextResources ==
    \/ Idle /\ \E env \in Reads(8) : model_summary(env)
    \/ Idle /\ \E env \in Reads(1) : model_materials(env)
    \/ Idle /\ \E env \in Reads(1) : model_sections(env)
    \/ Idle /\ \E env \in Reads(1) : model_load_cases(env)
    \/ Idle /\ \E env \in Reads(1) : model_stages(env)
    \/ Idle /\ \E env \in Reads(1) : model_structure_groups(env)
    \/ Idle /\ \E env \in Reads(5) : model_boundaries(env)

NextProvider ==
    \/ Idle /\ \E env \in Reads(1), ids \in {PyNone, PyInt(1)} : call_get_node_data(env, ids)
    \/ Idle /\ \E env \in Reads(1), ids \in {PyNone, PyInt(1)} : call_get_element_data(env, ids)
    \/ Idle /\ \E env \in Queries : call_get_section_data(env, 1, 0)
    \/ Idle /\ \E env \in Writes(1) : call_update_project_setting(env, [project |-> "bridge"])
    \/ Idle /\ \E env \in Writes(1) : call_add_self_weight(env, "SW")

Next ==
    \/ NextModeling
    \/ NextGroups
    \/ NextTendon
    \/ NextBoundary
    \/ NextVisualization
    \/ NextMovingLoad
    \/ NextChecking
    \/ NextWorkflowTools
    \/ NextResources
    \/ NextProvider

Spec == Init /\ [][Next]_vars

-----------------------------------------------------------------------------
\* Properties.

ModelingTools ==
    {"create_nodes", "create_elements", "create_material", "create_section", "set_support",
     "apply_nodal_force", "apply_beam_distributed_load", "add_construction_stage",
     "configure_analysis", "validate_model", "get_model_info", "get_analysis_results"}

WorkflowTools == {"create_simple_beam_bridge", "create_continuous_beam_bridge"}

CheckingTools ==
    {"setup_concrete_check", "add_check_load_combination", "run_concrete_check",
     "add_parametric_reinforcement"}

OtherTools ==
    {"create_structure_group", "create_boundary_group", "create_load_group",
     "list_group_members", "add_elements_to_group", "merge_operation_stage",
     "create_tendon_property", "create_tendon_2d", "apply_prestress", "get_tendon_info",
     "add_elastic_link", "add_master_slave_link", "add_elastic_support",
     "save_model_screenshot", "plot_analysis_result", "set_view_angle",
     "add_standard_vehicle", "add_traffic_lane", "create_live_load_case",
     "get_live_load_results"}

ToolNames == ModelingTools \cup WorkflowTools \cup CheckingTools \cup OtherTools

ResourceNames ==
    {"model_summary", "model_materials", "model_sections", "model_load_cases",
     "model_stages", "model_structure_groups", "model_boundaries"}

\* the provider calls of the invocation that went to `method`
CallsTo(method) == SelectSeq(pcalls, LAMBDA c : c.method = method)

\* C1: every tool handler returns a string, whatever its arguments and whatever
\* the provider does; no exception leaves a handler.
C1_HandlersReturnStrings == tool \in ToolNames => ret.kind = "str"

\* a handler whose own argument processing raised (division by num_elements = 0, a
\* load_case_factors row with fewer than 3 entries, force / 1000 of a string) and
\* that answered with the error string
C1_Witness ==
    /\ tool = "add_check_load_combination"
    /\ available
    /\ pcalls = <<>>
    /\ ret.kind = "str"
    /\ ret.tag = "error"
    /\ ret.detail = <<"list index out of range">>

\* C2: while the provider is unavailable every provider operation raises
\* RuntimeError and no call is made on a vendor object.
C2_AvailabilityGate ==
    ~available =>
        /\ vcalls = <<>>
        /\ \A i \in 1..Len(pcalls) : pcalls[i].exc = "RuntimeError"

\* a checking operation and add_self_weight called on an unavailable provider
C2_Witness ==
    /\ ~available
    /\ tool \in {"run_concrete_check", "QtModelProvider.add_self_weight"}
    /\ Len(pcalls) = 1
    /\ pcalls[1].exc = "RuntimeError"
    /\ vcalls = <<>>

\* C3 (as stated): with an available provider, an invocation of a checking tool
\* that reaches the provider results in a call on the vendor checking API (cdb).
C3_CheckingDelegated ==
    (available /\ tool \in CheckingTools /\ pcalls # <<>>) =>
        \E i \in 1..Len(vcalls) : vcalls[i].obj = "cdb"

\* the shape of one successful create_simple_beam_bridge invocation; `increasing`
\* says whether the x coordinates are required to grow with the node ID
SimpleTopology(increasing) ==
    LET n == args.num_elements + 1
        nodes == CallsTo("add_nodes")
        elems == CallsTo("add_elements")
        sups == CallsTo("add_general_support")
    IN /\ Len(nodes) = 1
       /\ Len(nodes[1].args.node_data) = n
       /\ \A i \in 1..n :
            /\ nodes[1].args.node_data[i][1] = i
            /\ nodes[1].args.node_data[i][3] = 0
            /\ nodes[1].args.node_data[i][4] = 0
       /\ increasing =>
            \A i \in 1..(n - 1) :
                Less(nodes[1].args.node_data[i][2], nodes[1].args.node_data[i + 1][2])
       /\ Len(elems) = 1
       /\ Len(elems[1].args.ele_data) = args.num_elements
       /\ \A i \in 1..args.num_elements :
            /\ elems[1].args.ele_data[i][1] = i
            /\ elems[1].args.ele_data[i][2] = 1
            /\ elems[1].args.ele_data[i][6] = i
            /\ elems[1].args.ele_data[i][7] = i + 1
       /\ Len(sups) = 2
       /\ sups[1].args.node_id = 1
       /\ sups[1].args.boundary_info = <<TRUE, TRUE, TRUE, FALSE, FALSE, FALSE>>
       /\ sups[2].args.node_id = n
       /\ sups[2].args.boundary_info = <<FALSE, TRUE, TRUE, FALSE, FALSE, FALSE>>

SimpleBeamDone ==
    /\ tool = "create_simple_beam_bridge"
    /\ ret.tag = "success"
    /\ args.num_elements >= 1

\* C4 (amended): a successful create_simple_beam_bridge with num_elements >= 1
\* makes one add_nodes call with nodes 1..n on the X axis, one add_elements call
\* with element i joining nodes i and i+1, and two supports, pin at node 1 and
\* roller at node n; the x coordinates increase with the node ID when span > 0.
C4_SimpleBeamTopology == SimpleBeamDone => SimpleTopology(args.span > 0)

\* C4 (as stated): the same with the x coordinates increasing for every span.
C4_AsStated == SimpleBeamDone => SimpleTopology(TRUE)

\* a three-element beam of positive span built with every provider call succeeding
C4_Witness ==
    /\ SimpleBeamDone
    /\ args.span > 0
    /\ args.num_elements = 3
    /\ \A i \in 1..Len(pcalls) : pcalls[i].exc = "none"
    /\ model.nodes = {1, 2, 3, 4}

ContinuousSpans == IF args.spans.t = "none" THEN DefaultSpans ELSE args.spans.v

ContinuousBeamDone ==
    /\ tool = "create_continuous_beam_bridge"
    /\ ret.tag = "success"
    /\ Len(ContinuousSpans) >= 1
    /\ args.num_elements_per_span >= 1

\* C5: a successful create_continuous_beam_bridge with k >= 1 spans of m >= 1
\* elements creates nodes 1..k*m+1 and k*m elements (element i joining nodes i
\* and i+1) and sets k+1 supports on distinct nodes in increasing order: roller at
\* node 1, fixed dx,dy,dz at each pier node 1+j*m, roller at node k*m+1.
C5_ContinuousBeamTopology ==
    ContinuousBeamDone =>
        LET k == Len(ContinuousSpans)
            m == args.num_elements_per_span
            nodes == CallsTo("add_nodes")
            elems == CallsTo("add_elements")
            sups == CallsTo("add_general_support")
        IN /\ Len(nodes) = 1
           /\ Len(nodes[1].args.node_data) = k * m + 1
           /\ \A i \in 1..(k * m + 1) : nodes[1].args.node_data[i][1] = i
           /\ Len(elems) = 1
           /\ Len(elems[1].args.ele_data) = k * m
           /\ \A i \in 1..(k * m) :
                /\ elems[1].args.ele_data[i][1] = i
                /\ elems[1].args.ele_data[i][6] = i
                /\ elems[1].args.ele_data[i][7] = i + 1
           /\ Len(sups) = k + 1
           /\ sups[1].args.node_id = 1
           /\ sups[1].args.boundary_info = <<FALSE, TRUE, TRUE, FALSE, FALSE, FALSE>>
           /\ \A j \in 1..(k - 1) :
                /\ sups[j + 1].args.node_id = 1 + j * m
                /\ sups[j + 1].args.boundary_info[1]
                /\ sups[j + 1].args.boundary_info[2]
                /\ sups[j + 1].args.boundary_info[3]
           /\ sups[k + 1].args.node_id = k * m + 1
           /\ sups[k + 1].args.boundary_info = <<FALSE, TRUE, TRUE, FALSE, FALSE, FALSE>>
           /\ \A i \in 1..k : sups[i].args.node_id < sups[i + 1].args.node_id

\* the default three spans of two elements each: piers at nodes 3 and 5
C5_Witness ==
    /\ ContinuousBeamDone
    /\ args.spans.t = "none"
    /\ args.num_elements_per_span = 2
    /\ Len(CallsTo("add_general_support")) = 4
    /\ CallsTo("add_general_support")[3].args.node_id = 5
    /\ \A i \in 1..Len(pcalls) : pcalls[i].exc = "none"

\* the ID, in the model after the invocation, of the section called name (0: none)
SectionIdOf(name) ==
    IF HasName(model.secs, name)
    THEN (CHOOSE s \in Range(model.secs) : s.name = name).id
    ELSE 0

\* C6 (as stated): in both workflow tools the section ID written into every
\* created element is the ID of the section named by section_name, whatever the
\* model held before.
C6_SectionAssigned ==
    (tool \in WorkflowTools /\ ret.tag = "success") =>
        \A i \in 1..Len(CallsTo("add_elements")[1].args.ele_data) :
            CallsTo("add_elements")[1].args.ele_data[i][4] = SectionIdOf(args.section_name)

\* C7 (as stated): create_simple_beam_bridge with num_elements < 2 is rejected
\* with an error string and creates no nodes, elements or supports.
C7_MinTwoElements ==
    (tool = "create_simple_beam_bridge" /\ args.num_elements < 2) =>
        /\ ret.tag = "error"
        /\ CallsTo("add_nodes") = <<>>
        /\ CallsTo("add_elements") = <<>>
        /\ CallsTo("add_general_support") = <<>>

\* the provider method get_analysis_results is to reach for a result_type
DispatchOf(result_type) ==
    CASE result_type = "deformation" -> "get_deformation"
      [] result_type = "force" -> "get_element_force"
      [] result_type = "stress" -> "get_element_stress"
      [] result_type = "reaction" -> "get_reaction"
      [] OTHER -> "none"

\* C8: get_analysis_results makes exactly one provider call for the four known
\* result types, to the method of that type, with the given ids and stage_id and
\* with case_name only when it is non-empty, and returns str() of the result; for
\* any other result_type it returns the "Unknown result_type" message and makes no
\* provider call.
C8_ResultDispatch ==
    tool = "get_analysis_results" =>
        IF DispatchOf(args.result_type) # "none"
        THEN /\ Len(pcalls) = 1
             /\ pcalls[1].method = DispatchOf(args.result_type)
             /\ pcalls[1].args.ids = args.ids
             /\ pcalls[1].args.stage_id = args.stage_id
             /\ ("case_name" \in DOMAIN pcalls[1].args) <=> (args.case_name # "")
             /\ args.case_name # "" => pcalls[1].args.case_name = args.case_name
             /\ pcalls[1].exc = "none" =>
                    ret = [kind |-> "str", tag |-> "result", head |-> Str(pcalls[1].val),
                           detail |-> <<>>]
        ELSE /\ pcalls = <<>>
             /\ vcalls = <<>>
             /\ ret.kind = "str"
             /\ ret.head = "Unknown result_type"

\* a stress query without case_name whose result, the integer 7, comes back as "7"
C8_Witness ==
    /\ tool = "get_analysis_results"
    /\ args.result_type = "stress"
    /\ args.case_name = ""
    /\ Len(pcalls) = 1
    /\ pcalls[1].method = "get_element_stress"
    /\ pcalls[1].val = PyInt(7)
    /\ ret.head = "7"

\* the JSON object whose only key is "error", holding the text of the exception
ErrorObject(exc) ==
    [j |-> "object", members |-> [error |-> [j |-> "string", s |-> ExcText(exc)]]]

\* C9: a resource handler never raises; it returns the JSON text of the
\* provider's data, and when the provider call or the encoding of its result
\* raises, the JSON object whose only key is "error" with the exception text; on
\* an unavailable provider every resource read yields such an error object.
C9_ResourcesNeverRaise ==
    tool \in ResourceNames =>
        /\ ret.kind = "str"
        /\ ret.tag = "json"
        /\ Len(pcalls) = 1
        /\ IF pcalls[1].exc # "none" THEN ret.detail = <<ErrorObject(pcalls[1].exc)>>
           ELSE IF ~Encodable(pcalls[1].val) THEN ret.detail = <<ErrorObject("TypeError")>>
           ELSE /\ ret.detail = <<JsonText(pcalls[1].val)>>
                /\ ret.detail[1].j \in {"array", "object"}
                /\ ret.detail[1].j = "object" => "error" \notin DOMAIN ret.detail[1].members
        /\ ~available => ret.detail = <<ErrorObject("RuntimeError")>>

\* the boundaries resource answering with an error object because a vendor answer
\* cannot be encoded
C9_Witness ==
    /\ tool = "model_boundaries"
    /\ available
    /\ pcalls[1].exc = "none"
    /\ ~Encodable(pcalls[1].val)
    /\ DOMAIN ret.detail[1].members = {"error"}

\* C10: the dict validate_model returns has the keys is_valid, errors, warnings
\* and summary; is_valid holds exactly when errors is empty, which is exactly when
\* node_count, element_count and material_count are all greater than 0; overlap
\* warnings leave is_valid as it is.
C10_ValidateVerdict ==
    (tool = "validate_model" /\ pcalls[1].exc = "none") =>
        LET result == pcalls[1].val.v
            counted == /\ result.summary.node_count.v > 0
                       /\ result.summary.element_count.v > 0
                       /\ result.summary.material_count.v > 0
        IN /\ DOMAIN result = {"is_valid", "errors", "warnings", "summary"}
           /\ result.is_valid <=> (result.errors = <<>>)
           /\ (result.errors = <<>>) <=> counted
           /\ (ret.head = "Model validation PASSED") <=> result.is_valid

\* a model with nodes, elements and materials found valid although both overlap
\* queries reported overlaps
C10_Witness ==
    /\ tool = "validate_model"
    /\ pcalls[1].exc = "none"
    /\ pcalls[1].val.v.is_valid
    /\ Len(pcalls[1].val.v.warnings) = 2
    /\ pcalls[1].val.v.summary.material_count.v > 0

\* the invocation just answered, as history keeps it
Current ==
    [tool |-> tool, args |-> args, pcalls |-> pcalls, vcalls |-> vcalls, ret |-> ret]

\* C11 (as stated): whenever configure_analysis returned its "Analysis configured"
\* message, the self-vibration setting in the vendor model equals the do_vibration
\* argument of that call, whatever configure_analysis calls came before.
C11_VibrationFollowsLastCall ==
    (tool = "configure_analysis" /\ ret.tag = "success") =>
        model.vib.on = args.do_vibration

\* C12 (as stated): two configure_analysis calls of a session whose arguments
\* differ only in solver_type make different provider calls.
C12_SolverTypeApplied ==
    tool = "configure_analysis" =>
        \A i \in 1..Len(history) :
            (/\ history[i].tool = "configure_analysis"
             /\ history[i].args.solver_type # args.solver_type
             /\ [history[i].args EXCEPT !.solver_type = args.solver_type] = args)
            => history[i].pcalls # pcalls

\* Two invocations react alike: as long as the vendor answered their vendor calls
\* alike, the next vendor call is the same (or absent in both), and when it
\* answered all of them alike the value handed back is the same.
SameReaction(a, b) ==
    LET n == IF Len(a.vcalls) < Len(b.vcalls) THEN Len(a.vcalls) ELSE Len(b.vcalls)
        Agree(k) == \A j \in 1..k : /\ a.vcalls[j].raised = b.vcalls[j].raised
                                    /\ a.vcalls[j].ans = b.vcalls[j].ans
    IN /\ \A i \in 1..(n + 1) :
            Agree(i - 1) =>
                /\ (i <= Len(a.vcalls)) <=> (i <= Len(b.vcalls))
                /\ i <= n => /\ a.vcalls[i].obj = b.vcalls[i].obj
                             /\ a.vcalls[i].method = b.vcalls[i].method
                             /\ a.vcalls[i].args = b.vcalls[i].args
       /\ (Len(a.vcalls) = Len(b.vcalls) /\ Agree(n)) => a.ret = b.ret

C13_PlotTypeTable ==
    (/\ available
     /\ tool \in {"plot_analysis_result", "QtModelProvider.plot_result"}
     /\ pcalls # <<>>) =>
        LET c == pcalls[1]
            rt == c.args.result_type
            extra == [k \in DOMAIN c.args \ {"result_type"} |-> c.args[k]]
        IN /\ Len(pcalls) = 1
           /\ c.method = "plot_result"
           /\ rt = args.result_type
           /\ rt \in PlotTypes =>
                /\ Len(vcalls) = 1
                /\ vcalls[1].obj = "odb"
                /\ vcalls[1].method = plot_methods(rt)
                /\ vcalls[1].method # "None"
                /\ vcalls[1].args = extra
                /\ "file_path" \in DOMAIN vcalls[1].args
                /\ tool = "plot_analysis_result" =>
                     /\ vcalls[1].args.stage_id = args.stage_id
                     /\ ("case_name" \in DOMAIN vcalls[1].args) <=> (args.case_name # "")
                     /\ ("component" \in DOMAIN vcalls[1].args) <=> (args.component # "")
           /\ rt \notin PlotTypes =>
                /\ vcalls = <<>>
                /\ c.exc = "ValueError"
                /\ tool = "QtModelProvider.plot_result" =>
                     (ret.kind = "raise" /\ ret.tag = "ValueError")
                /\ tool = "plot_analysis_result" =>
                     /\ ret.kind = "str"
                     /\ ret.tag = "error"
                     /\ ret.head = "Error plotting result"
                     /\ ret.detail = <<ExcText("ValueError")>>

\* a modal plot with a case name and a component, saved
C13_Witness ==
    /\ available
    /\ tool = "plot_analysis_result"
    /\ args.result_type = "modal"
    /\ args.case_name = "DL"
    /\ args.component = "uy"
    /\ Len(vcalls) = 1
    /\ vcalls[1].method = "plot_modal_result"
    /\ ~vcalls[1].raised
    /\ ret.tag = "success"

StageKeys == {"active_structures", "active_boundaries", "active_loads"}

\* C15: add_construction_stage passes name and duration unchanged; each of
\* active_structures, active_boundaries, active_loads that is a non-empty list of
\* lists is passed as a list of tuples of the same length, order and entries; one
\* that is None or empty is not passed at all.
C15_StageReshaping ==
    tool = "add_construction_stage" =>
        /\ Len(pcalls) = 1
        /\ pcalls[1].method = "add_construction_stage"
        /\ pcalls[1].args.name = args.name
        /\ pcalls[1].args.duration = args.duration
        /\ DOMAIN pcalls[1].args \subseteq StageKeys \cup {"name", "duration"}
        /\ \A k \in StageKeys :
            IF args[k].t = "list" /\ args[k].v # <<>>
            THEN /\ k \in DOMAIN pcalls[1].args
                 /\ pcalls[1].args[k].t = "list"
                 /\ Len(pcalls[1].args[k].v) = Len(args[k].v)
                 /\ \A i \in 1..Len(args[k].v) :
                        /\ pcalls[1].args[k].v[i].t = "tuple"
                        /\ pcalls[1].args[k].v[i].v = args[k].v[i]
            ELSE k \notin DOMAIN pcalls[1].args

\* two structure groups, an empty boundary list and no load list
C15_Witness ==
    /\ available
    /\ tool = "add_construction_stage"
    /\ args.active_structures = PyList(<<<<"G1", 0>>, <<"G2", 1>>>>)
    /\ args.active_boundaries = PyList(<<>>)
    /\ args.active_loads = PyNone
    /\ pcalls[1].exc = "none"
    /\ DOMAIN pcalls[1].args = {"name", "duration", "active_structures"}
    /\ vcalls[1].args = pcalls[1].args

SimpleOrder ==
    <<"add_material", "add_section", "add_nodes", "get_material_data", "get_section_names",
      "add_elements", "add_general_support", "add_general_support", "add_self_weight">>

\* the steps of create_simple_beam_bridge that sit in a try / except of their own
SwallowedSteps == {1, 2, 9}

\* C16: create_simple_beam_bridge calls the provider in the order add_material,
\* add_section, add_nodes, get_material_data, get_section_names, add_elements,
\* add_general_support(1), add_general_support(n), add_self_weight; a failing
\* add_material, add_section or add_self_weight does not stop it and the success
\* message is still returned; after a failure of any other step the error string
\* is returned and no later call is made.
C16_StepOrder ==
    tool = "create_simple_beam_bridge" =>
        LET k == Len(pcalls)
        IN /\ k \in 2..9
           /\ \A j \in 1..k : pcalls[j].method = SimpleOrder[j]
           /\ k >= 7 => pcalls[7].args.node_id = 1
           /\ k >= 8 => pcalls[8].args.node_id = args.num_elements + 1
           /\ \A j \in 1..k :
                (pcalls[j].exc # "none" /\ j \notin SwallowedSteps) =>
                    (j = k /\ ret.tag = "error")
           /\ ret.kind = "str"
           /\ (k = 9) <=> (ret.tag = "success")
           /\ (k < 9) <=> (ret.tag = "error")

\* add_section fails in the vendor and the bridge is built all the same
C16_Witness ==
    /\ available
    /\ tool = "create_simple_beam_bridge"
    /\ Len(pcalls) = 9
    /\ pcalls[2].exc = "VendorError"
    /\ \A j \in 3..9 : pcalls[j].exc = "none"
    /\ ret.tag = "success"
    /\ model.elems # {}

\* what one vendor call that did not raise does to the vendor model
EffectOf(m, call) ==
    CASE call.raised \/ call.obj # "mdb" -> m
      [] call.method = "add_material" -> mdb_add_material(m, call.args.name)
      [] call.method = "add_section" -> mdb_add_section(m, call.args.name)
      [] call.method = "add_nodes" -> mdb_add_nodes(m, call.args.node_data)
      [] call.method = "add_elements" -> mdb_add_elements(m, call.args.ele_data)
      [] call.method = "add_general_support" -> mdb_add_general_support(m, call.args.node_id)
      [] call.method = "add_load_case" -> mdb_add_load_case(m, call.args.name)
      [] OTHER -> m

RECURSIVE EffectsOf(_, _, _)
EffectsOf(m, calls, i) ==
    IF i > Len(calls) THEN m ELSE EffectsOf(EffectOf(m, calls[i]), calls, i + 1)

\* C17: when a workflow tool returns its error string, the vendor model holds the
\* effect of every vendor call that completed before the failing step: nothing is
\* rolled back.
C17_NoRollback ==
    [][(tool' \in WorkflowTools /\ tool = "none" /\ ret'.tag = "error")
        => model' = EffectsOf(model, vcalls', 1)]_vars

\* add_elements failed: the material, the section and the four nodes stay
C17_Witness ==
    /\ available
    /\ tool = "create_simple_beam_bridge"
    /\ ret.tag = "error"
    /\ Len(pcalls) = 6
    /\ pcalls[6].exc = "VendorError"
    /\ pcalls[1].exc = "none"
    /\ pcalls[2].exc = "none"
    /\ args.num_elements = 3
    /\ model.nodes = {1, 2, 3, 4}
    /\ model.elems = {}
    /\ HasName(model.mats, args.material_name)
    /\ HasName(model.secs, args.section_name)

\* C18 (as stated): while the provider is unavailable no tool returns a success
\* message: every tool returns either an error string carrying the "qtmodel
\* provider unavailable" reason or a message produced without reaching the provider.
C18_NoSuccessWhileUnavailable ==
    (~available /\ tool \in ToolNames) =>
        /\ ret.kind = "str"
        /\ ret.tag # "success"
        /\ ret.tag = "error" => ret.detail = <<ExcText("RuntimeError")>>
        /\ ret.tag # "error" => pcalls = <<>>

====

